---- MODULE Spec2Model ----
(***************************************************************************)
(* Model of the graph style customizer: NeighborFinder (adjacency graph    *)
(* construction and the two breadth-first searches), the rule matcher      *)
(* GraphStyler.getStyleFromRules and the style caches that                 *)
(* GraphStyler.applyStyles fills for nodes and links.                      *)
(*                                                                         *)
(* Strings of the program are sequences of tokens: a token is a letter,    *)
(* the path separator "/", the default extension ".md", the colour prefix  *)
(* "#" or a hex digit.  No token is a suffix or a prefix of another one, so *)
(* equality, concatenation, startsWith, endsWith and lastIndexOf on token  *)
(* sequences agree with the same operations on the character strings.      *)
(***************************************************************************)
EXTENDS Integers, Sequences, FiniteSets, TLC

VARIABLES
    hostNodes,      \* the node collection the host owns (renderer.nodes)
    pending,        \* host changes since the last buildFromNodes
    adjacencyList,  \* NeighborFinder.adjacencyList
    nfInput,        \* argument of the last buildFromNodes call
    nfHist,         \* how the last build relates to the one before it
    ret,            \* the last call on the NeighborFinder and what it returned
    settings,       \* GraphStyler.settings
    ruleRet,        \* the last getStyleFromRules call and what it returned
    activeFile,     \* path of the file getActiveFile() returns, <<>> for null
    lastActiveNodeId, \* GraphStyler.lastActiveNodeId, <<>> for null
    nodeHopLevels,  \* GraphStyler.nodeHopLevels
    nodeStyles,     \* GraphStyler.nodeStyles
    edgeStyles,     \* GraphStyler.edgeStyles, keyed by <<source id, target id>>
    lastPass,       \* how the last applyStyles pass ended and its activeNodeId
    heap,           \* the arrays settings objects refer to, by reference
    pluginSettings, \* GraphStyleCustomizerPlugin.settings
    lastEdit,       \* the last operation of the settings tab or the plugin
    leaves,         \* the open graph views: leaf id -> view type
    stylers,        \* GraphStyleCustomizerPlugin.stylers: the leaf ids with a styler
    lastStyled,     \* the leaf ids styled by the last updateAllStylers
    stylerOf,       \* GraphStyleCustomizerPlugin.stylers: leaf id -> its GraphStyler object
    created,        \* the number of GraphStyler objects constructed so far
    cleanedUp,      \* the GraphStyler objects on which cleanup() has been called
    bfs,            \* the locals of the breadth-first loop that is running
    rendererReady,  \* the view of the leaf has a renderer with nodes
    isInitialized,  \* GraphStyler.isInitialized
    initTimer,      \* the 200 ms timeout of initialize() is pending
    rafId,          \* GraphStyler.rafId is not null: a frame of the ticker is requested
    disposed,       \* cleanup() has been called on the styler
    lastNodeCount,  \* GraphStyler.lastNodeCount
    lastLinkCount,  \* GraphStyler.lastLinkCount
    proxiedNodes,   \* GraphStyler.proxiedNodes
    proxiedLinks,   \* GraphStyler.proxiedLinks
    originalRenderMethods,      \* node id -> the node object whose render was saved
    originalLinkRenderMethods,  \* the links whose render was saved
    nodeObject,     \* node id -> the node object the host holds under this id
    render,         \* node object -> the render method it has now
    linkRender,     \* link -> the render method it has now
    circleScale,    \* node object -> times the styler has multiplied node.circle.scale
    lineScale,      \* link -> times the styler has multiplied link.line.scale.y
    lastRun,        \* the last callback of the styler and what it did
    debounceTimer,  \* the timer of debouncedUpdate is running
    eventFile,      \* the active file of the workspace at its last change event
    view            \* the type of the leaf's view and, for a local graph, view.file

finderVars == <<hostNodes, pending, adjacencyList, nfInput, nfHist, ret>>

stylerVars == <<activeFile, lastActiveNodeId, nodeHopLevels, nodeStyles, edgeStyles, lastPass>>

registryVars == <<stylerOf, created, cleanedUp>>

pluginVars == <<heap, pluginSettings, lastEdit, leaves, stylers, lastStyled, registryVars>>

lifeVars == <<rendererReady, isInitialized, initTimer, rafId, disposed>>

proxyVars == <<lastNodeCount, lastLinkCount, proxiedNodes, proxiedLinks,
               originalRenderMethods, originalLinkRenderMethods>>

objectVars == <<nodeObject, render, linkRender, circleScale, lineScale>>

eventVars == <<debounceTimer, eventFile, view>>

sessionVars == <<bfs, eventVars, lifeVars, proxyVars, objectVars, lastRun>>

vars == <<hostNodes, pending, adjacencyList, nfInput, nfHist, ret, settings, ruleRet,
          activeFile, lastActiveNodeId, nodeHopLevels, nodeStyles, edgeStyles, lastPass,
          heap, pluginSettings, lastEdit, leaves, stylers, lastStyled,
          stylerOf, created, cleanedUp, bfs,
          rendererReady, isInitialized, initTimer, rafId, disposed,
          lastNodeCount, lastLinkCount, proxiedNodes, proxiedLinks,
          originalRenderMethods, originalLinkRenderMethods,
          nodeObject, render, linkRender, circleScale, lineScale, lastRun,
          debounceTimer, eventFile, view>>

----------------------------------------------------------------------------
(* Bounds *)

MaxEdges == 3

MaxHopsBound == 3

MaxPending == 1

MaxNodes == 2

MaxElems == 2

MaxRules == 2

----------------------------------------------------------------------------
(* Generic helpers *)

Range(s) == {s[i] : i \in DOMAIN s}

Includes(s, tok) == \E i \in DOMAIN s : s[i] = tok

StartsWith(s, p) == Len(p) <= Len(s) /\ SubSeq(s, 1, Len(p)) = p

EndsWith(s, p) == Len(p) <= Len(s) /\ SubSeq(s, Len(s) - Len(p) + 1, Len(s)) = p

----------------------------------------------------------------------------
(* Node identifiers (file paths) *)

nA == <<"A", ".md">>

nB == <<"B", ".md">>

nC == <<"P", "/", "C", ".md">>

nD == <<"P", "/", "D", ".md">>

nE == <<"Q", "/", "P", "/", "D", ".md">>

nX == <<"X", ".md">>

IdSeq == <<nA, nB, nC, nD>>

NodeIds == Range(IdSeq)

Ord(id) == CHOOSE i \in DOMAIN IdSeq : IdSeq[i] = id

----------------------------------------------------------------------------
(* NeighborFinder *)

EmptyAdj == [id \in {} |-> <<>>]

StrElem(x) == [t |-> "str", id |-> x]

ObjElem(x) == [t |-> "obj", id |-> x]

NullElem == [t |-> "null", id |-> <<>>]

NumKey == [t |-> "num", id |-> <<>>]

NoLinks == [shape |-> "none", elems |-> <<>>]

NullNode == [null |-> TRUE, forward |-> NoLinks, reverse |-> NoLinks]

(* LinkId without the branch for an object that carries an id *)
LinkIdStringsOnly(target, key) ==
    IF key.t = "str" /\ Includes(key.id, "/") THEN <<key.id>>
    ELSE IF target.t = "str" THEN <<target.id>>
    ELSE <<>>

(* getLinks: the id pushed by the forEach callback for one (target, key) *)
LinkId(target, key) ==
    IF key.t = "str" /\ Includes(key.id, "/") THEN <<key.id>>
    ELSE IF target.t = "str" THEN <<target.id>>
    ELSE IF target.t = "obj" /\ target.id # <<>> THEN <<target.id>>
    ELSE <<>>

(* The key a container passes to the forEach callback: a Set passes the    *)
(* element itself, an Array its index.                                     *)
CallbackKey(shape, elem) == IF shape = "set" THEN elem ELSE NumKey

RECURSIVE getLinksFrom(_, _, _)
getLinksFrom(shape, elems, i) ==
    IF i > Len(elems) THEN <<>>
    ELSE (IF shape = "object" THEN <<elems[i].id>>
          ELSE LinkId(elems[i], CallbackKey(shape, elems[i])))
         \o getLinksFrom(shape, elems, i + 1)

getLinks(node, direction) ==
    LET linkData == node[direction]
    IN  IF linkData.shape = "none" THEN <<>>
        ELSE getLinksFrom(linkData.shape, linkData.elems, 1)

(* Set.add on an insertion-ordered set *)
SetAdd(seq, x) == IF x \in Range(seq) THEN seq ELSE Append(seq, x)

EnsureKey(adj, id) == IF id \in DOMAIN adj THEN adj ELSE adj @@ (id :> <<>>)

(* addEdge that records the edge at its first endpoint only *)
addEdgeOneWay(adj, from, to) ==
    LET a1 == EnsureKey(EnsureKey(adj, from), to)
    IN  [a1 EXCEPT ![from] = SetAdd(@, to)]

addEdge(adj, from, to) ==
    LET a1 == EnsureKey(EnsureKey(adj, from), to)
        a2 == [a1 EXCEPT ![from] = SetAdd(@, to)]
    IN  [a2 EXCEPT ![to] = SetAdd(@, from)]

(* The [id, node] pairs buildFromNodes collects from the three container   *)
(* shapes: an array entry counts only if the node is non-null and has an   *)
(* id, a Map or record entry always does.                                  *)
nodeEntriesOf(nodes) ==
    IF nodes.shape = "array"
    THEN SelectSeq(nodes.items, LAMBDA it : ~it.node.null /\ it.id # <<>>)
    ELSE nodes.items

RECURSIVE initKeys(_, _, _)
initKeys(adj, entries, i) ==
    IF i > Len(entries) THEN adj
    ELSE initKeys(EnsureKey(adj, entries[i].id), entries, i + 1)

RECURSIVE addForward(_, _, _, _)
addForward(adj, id, links, i) ==
    IF i > Len(links) THEN adj
    ELSE addForward(addEdge(adj, id, links[i]), id, links, i + 1)

RECURSIVE addReverse(_, _, _, _)
addReverse(adj, id, links, i) ==
    IF i > Len(links) THEN adj
    ELSE addReverse(addEdge(adj, links[i], id), id, links, i + 1)

RECURSIVE buildEdges(_, _, _)
buildEdges(adj, entries, i) ==
    IF i > Len(entries) THEN adj
    ELSE IF entries[i].node.null THEN buildEdges(adj, entries, i + 1)
    ELSE LET id == entries[i].id
             fw == addForward(adj, id, getLinks(entries[i].node, "forward"), 1)
             rv == addReverse(fw, id, getLinks(entries[i].node, "reverse"), 1)
         IN  buildEdges(rv, entries, i + 1)

(* buildFromNodes without the initial clear() *)
buildFromNodesNoClear(old, nodes) ==
    LET entries == nodeEntriesOf(nodes)
    IN  buildEdges(initKeys(old, entries, 1), entries, 1)

(* buildFromNodes(old, nodes): the adjacency list after the call, old the  *)
(* one before it (cleared first).                                          *)
buildFromNodes(old, nodes) ==
    LET cleared == EmptyAdj
        entries == nodeEntriesOf(nodes)
    IN  buildEdges(initKeys(cleared, entries, 1), entries, 1)

NeighborsOf(adj, id) == IF id \in DOMAIN adj THEN adj[id] ELSE <<>>

(* hopLoop that enqueues every neighbor, visited or not *)
RECURSIVE hopLoopNoVisited(_, _, _, _, _)
hopLoopNoVisited(adj, maxHops, queue, visited, result) ==
    IF queue = <<>> THEN result
    ELSE LET currentId == queue[1][1]
             distance == queue[1][2]
             r1 == IF distance > 0 /\ distance <= maxHops
                   THEN [result EXCEPT ![distance] = @ \cup {currentId}]
                   ELSE result
             fresh == IF distance < maxHops THEN NeighborsOf(adj, currentId) ELSE <<>>
         IN  hopLoopNoVisited(adj, maxHops,
                     Tail(queue) \o [i \in 1..Len(fresh) |-> <<fresh[i], distance + 1>>],
                     visited \cup Range(fresh), r1)

RECURSIVE hopLoop(_, _, _, _, _)
hopLoop(adj, maxHops, queue, visited, result) ==
    IF queue = <<>> THEN result
    ELSE LET currentId == queue[1][1]
             distance == queue[1][2]
             r1 == IF distance > 0 /\ distance <= maxHops
                   THEN [result EXCEPT ![distance] = @ \cup {currentId}]
                   ELSE result
             fresh == IF distance < maxHops
                      THEN SelectSeq(NeighborsOf(adj, currentId),
                                     LAMBDA n : n \notin visited)
                      ELSE <<>>
         IN  hopLoop(adj, maxHops,
                     Tail(queue) \o [i \in 1..Len(fresh) |-> <<fresh[i], distance + 1>>],
                     visited \cup Range(fresh), r1)

(* findNeighborsByHop that returns before the hop sets are created *)
findNeighborsByHopEarlyReturn(adj, sourceId, maxHops) ==
    LET result == [hop \in 1..maxHops |-> {}]
    IN  IF sourceId \notin DOMAIN adj THEN <<>>
        ELSE hopLoop(adj, maxHops, <<<<sourceId, 0>>>>, {sourceId}, result)

findNeighborsByHop(adj, sourceId, maxHops) ==
    LET result == [hop \in 1..maxHops |-> {}]
    IN  IF sourceId \notin DOMAIN adj THEN result
        ELSE hopLoop(adj, maxHops, <<<<sourceId, 0>>>>, {sourceId}, result)

(* connectedLoop without the test that keeps the source out *)
RECURSIVE connectedLoopKeepSource(_, _, _, _, _)
connectedLoopKeepSource(adj, sourceId, queue, visited, connected) ==
    IF queue = <<>> THEN connected
    ELSE LET currentId == queue[1]
             fresh == SelectSeq(NeighborsOf(adj, currentId),
                                LAMBDA n : n \notin visited)
         IN  connectedLoopKeepSource(adj, sourceId, Tail(queue) \o fresh,
                           visited \cup Range(fresh), connected \cup {currentId})

RECURSIVE connectedLoop(_, _, _, _, _)
connectedLoop(adj, sourceId, queue, visited, connected) ==
    IF queue = <<>> THEN connected
    ELSE LET currentId == queue[1]
             c1 == IF currentId # sourceId THEN connected \cup {currentId}
                   ELSE connected
             fresh == SelectSeq(NeighborsOf(adj, currentId),
                                LAMBDA n : n \notin visited)
         IN  connectedLoop(adj, sourceId, Tail(queue) \o fresh,
                           visited \cup Range(fresh), c1)

getAllConnectedNodes(adj, sourceId) ==
    IF sourceId \notin DOMAIN adj THEN {}
    ELSE connectedLoop(adj, sourceId, <<sourceId>>, {sourceId}, {})


----------------------------------------------------------------------------
(* The host's node collection.  hostNodes.shape is "map", "array" or      *)
(* "record"; hostNodes.items is the sequence of its entries, each an id    *)
(* and a node descriptor with a forward and a reverse link container;      *)
(* hostNodes.links is the kind of container this host uses for links       *)
(* ("set", "array" or "object").                                           *)

LinkElems == {StrElem(nB), StrElem(nC), ObjElem(nB), ObjElem(<<>>), NullElem}

EmptyNode == [null |-> FALSE, forward |-> NoLinks, reverse |-> NoLinks]

NoRet == [op |-> "none", sourceId |-> <<>>, maxHops |-> 0, hops |-> <<>>, connected |-> {}]

ItemIds(nodes) == {nodes.items[i].id : i \in DOMAIN nodes.items}

ItemIndex(nodes, id) == CHOOSE i \in DOMAIN nodes.items : nodes.items[i].id = id

ElemCount(nodes) ==
    LET n(i) == Len(nodes.items[i].node.forward.elems) + Len(nodes.items[i].node.reverse.elems)
        RECURSIVE sum(_)
        sum(i) == IF i = 0 THEN 0 ELSE n(i) + sum(i - 1)
    IN  sum(Len(nodes.items))

(* Number of host links: each is recorded forward at its source and        *)
(* reverse at its target.                                                  *)
LinkCount(nodes) ==
    LET n(i) == Len(nodes.items[i].node.forward.elems)
        RECURSIVE sum(_)
        sum(i) == IF i = 0 THEN 0 ELSE n(i) + sum(i - 1)
    IN  sum(Len(nodes.items))

(* the links the host has recorded, as <<source, target>> *)
HostLinks(nodes) ==
    {<<nodes.items[i].id, e.id>> : i \in DOMAIN nodes.items, e \in LinkElems \cup {ObjElem(n) : n \in NodeIds}} \cap
    UNION {{<<nodes.items[i].id, e.id>> : e \in Range(nodes.items[i].node.forward.elems)} :
              i \in DOMAIN nodes.items}

(* the order in which the host of SpecFinder creates its links *)
LinkBefore(l1, l2) ==
    \/ Ord(l1[1]) < Ord(l2[1])
    \/ Ord(l1[1]) = Ord(l2[1]) /\ Ord(l1[2]) < Ord(l2[2])

AppendElem(linkData, shape, elem) ==
    [shape |-> IF linkData.shape = "none" THEN shape ELSE linkData.shape,
     elems |-> Append(linkData.elems, elem)]

(* A Set holds a string once, an object's keys are distinct strings.       *)
CanHold(linkData, shape, elem) ==
    /\ linkData.shape \in {"none", shape}
    /\ shape = "set" /\ elem.t = "str" => elem \notin Range(linkData.elems)
    /\ shape = "object" => elem.t = "str" /\ elem \notin Range(linkData.elems)

Host(nodes) ==
    /\ pending < MaxPending
    /\ hostNodes' = nodes
    /\ pending' = pending + 1
    /\ UNCHANGED <<adjacencyList, nfInput, nfHist, ret, settings, ruleRet, stylerVars, pluginVars, sessionVars>>

(* The host adds a node to its collection. *)
HostAddNode(id, node) ==
    /\ id \notin ItemIds(hostNodes)
    /\ Len(hostNodes.items) < MaxNodes
    /\ Host([hostNodes EXCEPT !.items = Append(@, [id |-> id, node |-> node])])

(* The host removes a node from its collection. *)
HostRemoveNode(i) ==
    /\ i \in DOMAIN hostNodes.items
    /\ Host([hostNodes EXCEPT !.items =
                [j \in 1..(Len(@) - 1) |-> IF j < i THEN @[j] ELSE @[j + 1]]])

(* The host puts one more element into a link container of a node. *)
HostAddElem(i, direction, elem) ==
    /\ i \in DOMAIN hostNodes.items
    /\ ~hostNodes.items[i].node.null
    /\ ElemCount(hostNodes) < MaxElems
    /\ CanHold(hostNodes.items[i].node[direction], hostNodes.links, elem)
    /\ Host([hostNodes EXCEPT !.items[i].node[direction] =
                AppendElem(@, hostNodes.links, elem)])

(* The host links two of its nodes, as the graph view does: the target     *)
(* object goes into source.forward, the source object into target.reverse. *)
HostLink(from, to) ==
    /\ {from, to} \subseteq ItemIds(hostNodes)
    /\ LinkCount(hostNodes) < MaxEdges
    /\ \A l \in HostLinks(hostNodes) : LinkBefore(l, <<from, to>>)
    /\ LET i == ItemIndex(hostNodes, from)
           j == ItemIndex(hostNodes, to)
           n1 == [hostNodes EXCEPT !.items[i].node.forward = AppendElem(@, "set", ObjElem(to))]
       IN  /\ ~hostNodes.items[i].node.null /\ ~hostNodes.items[j].node.null
           /\ hostNodes.items[i].node.forward.shape \in {"none", "set"}
           /\ hostNodes.items[j].node.reverse.shape \in {"none", "set"}
           /\ ObjElem(to) \notin Range(hostNodes.items[i].node.forward.elems)
           /\ Host([n1 EXCEPT !.items[j].node.reverse = AppendElem(@, "set", ObjElem(from))])

(* The graph view drops a node, as when its note is deleted: the node      *)
(* leaves the collection and every link to or from it leaves the link      *)
(* containers of the other nodes.                                          *)
HostDropNode(id) ==
    /\ id \in ItemIds(hostNodes)
    /\ LET i == ItemIndex(hostNodes, id)
           without(linkData) ==
               [linkData EXCEPT !.elems = SelectSeq(@, LAMBDA e : e.id # id)]
           kept == [j \in 1..(Len(hostNodes.items) - 1) |->
                        IF j < i THEN hostNodes.items[j] ELSE hostNodes.items[j + 1]]
       IN  Host([hostNodes EXCEPT !.items =
                    [j \in DOMAIN kept |->
                        [kept[j] EXCEPT !.node.forward = without(@),
                                        !.node.reverse = without(@)]]])

(* "dropped" if the build removed a key or an edge of the previous graph *)
BuildHist(old, new) ==
    IF \E k \in DOMAIN old : k \notin DOMAIN new \/ Range(old[k]) \ Range(new[k]) # {}
    THEN "dropped"
    ELSE "kept"

(* neighborFinder.buildFromNodes(renderer.nodes) *)
BuildFromNodes ==
    /\ adjacencyList' = buildFromNodes(adjacencyList, hostNodes)
    /\ nfInput' = hostNodes
    /\ nfHist' = BuildHist(adjacencyList, adjacencyList')
    /\ ret' = [NoRet EXCEPT !.op = "buildFromNodes"]
    /\ pending' = 0
    /\ UNCHANGED <<hostNodes, settings, ruleRet, stylerVars, pluginVars, sessionVars>>

FindNeighborsByHop(sourceId, maxHops) ==
    /\ ret' = [NoRet EXCEPT !.op = "findNeighborsByHop", !.sourceId = sourceId,
                            !.maxHops = maxHops,
                            !.hops = findNeighborsByHop(adjacencyList, sourceId, maxHops)]
    /\ UNCHANGED <<hostNodes, pending, adjacencyList, nfInput, nfHist, settings, ruleRet, stylerVars, pluginVars, sessionVars>>

GetAllConnectedNodes(sourceId) ==
    /\ ret' = [NoRet EXCEPT !.op = "getAllConnectedNodes", !.sourceId = sourceId,
                            !.connected = getAllConnectedNodes(adjacencyList, sourceId)]
    /\ UNCHANGED <<hostNodes, pending, adjacencyList, nfInput, nfHist, settings, ruleRet, stylerVars, pluginVars, sessionVars>>

NoNodes(shape, links) == [shape |-> shape, links |-> links, items |-> <<>>]

(* null, where a path is expected *)
NoFile == <<>>

NoStyles == [id \in {} |-> 0]

NoPass == [op |-> "none", activeNodeId |-> NoFile]

(* A GraphStyler as its field initializers leave it. *)
InitStyler ==
    /\ activeFile = NoFile
    /\ lastActiveNodeId = NoFile
    /\ nodeHopLevels = NoStyles
    /\ nodeStyles = NoStyles
    /\ edgeStyles = NoStyles
    /\ lastPass = NoPass

----------------------------------------------------------------------------
(* Settings.  Opacities, size and width multipliers are in hundredths      *)
(* (1.0 is 100); an optional shape or size that is undefined holds the     *)
(* falsy value of its type ("" or 0), which every reader of it treats      *)
(* alike; an undefined color is NoColor, because parseColor tells it from  *)
(* the empty string.                                                       *)

(* undefined, where a string is expected *)
NoColor == <<"undefined">>

NoShape == ""

NoSize == 0

DEFAULT_HOP_COLORS ==
    << <<"#", "4", "E", "C", "D", "C", "4">>, <<"#", "4", "5", "B", "7", "D", "1">>,
       <<"#", "9", "6", "C", "E", "B", "4">>, <<"#", "F", "F", "E", "A", "A", "7">>,
       <<"#", "D", "D", "A", "0", "D", "D">> >>

DEFAULT_SETTINGS ==
    [enabled |-> TRUE,
     maxHops |-> 3,
     selectedNodeColor |-> <<"#", "F", "F", "6", "B", "6", "B">>,
     hopColors |-> DEFAULT_HOP_COLORS,
     disconnectedOpacity |-> 15,
     defaultNodeShape |-> "circle",
     defaultNodeSize |-> 100,
     activeNodeSize |-> 110,
     edgeColorMode |-> "single",
     edgeColor |-> <<"#", "8", "8", "8", "8", "8", "8">>,
     highlightedEdgeColor |-> <<"#", "4", "E", "C", "D", "C", "4">>,
     hopEdgeColors |-> DEFAULT_HOP_COLORS,
     activeEdgeWidth |-> 200,
     defaultEdgeWidth |-> 100,
     disconnectedEdgeWidth |-> 50,
     applyToGlobalGraph |-> TRUE,
     applyToLocalGraph |-> TRUE,
     presets |-> <<>>,
     activePreset |-> "",
     rules |-> <<>>]

----------------------------------------------------------------------------
(* The state of one styler beyond its caches.                              *)
NoBfs == [op |-> "none", sourceId |-> NoFile, maxHops |-> 0, queue |-> <<>>,
          visited |-> {}, hops |-> <<>>, connected |-> {},
          pushed |-> <<>>, shifted |-> <<>>]

NoRun == [op |-> "none", pass |-> FALSE, newProxies |-> FALSE]

(* The fields of a GraphStyler as they are declared; the host's node and   *)
(* link objects, none of them touched yet, are not followed (NoStyles).    *)
InitFields ==
    /\ isInitialized = FALSE
    /\ initTimer = FALSE
    /\ rafId = FALSE
    /\ disposed = FALSE
    /\ lastNodeCount = 0
    /\ lastLinkCount = 0
    /\ proxiedNodes = {}
    /\ proxiedLinks = {}
    /\ originalRenderMethods = NoStyles
    /\ originalLinkRenderMethods = {}
    /\ lastRun = NoRun

(* a graph view: getActiveFile() asks the workspace *)
GraphView == [type |-> "graph", file |-> NoFile]

(* GraphStyler.getActiveFile: a local graph reports the file of its view *)
getActiveFile(v, workspaceFile) ==
    IF v.type = "localgraph" /\ v.file # NoFile THEN v.file ELSE workspaceFile

InitEvents ==
    /\ debounceTimer = FALSE
    /\ eventFile = NoFile
    /\ view = GraphView

InitSession ==
    /\ bfs = NoBfs
    /\ InitEvents
    /\ rendererReady = TRUE
    /\ InitFields
    /\ nodeObject = NoStyles
    /\ render = NoStyles
    /\ linkRender = NoStyles
    /\ circleScale = NoStyles
    /\ lineScale = NoStyles

----------------------------------------------------------------------------
(* The plugin's settings object.  An array-valued setting holds a          *)
(* reference into heap, so that two objects that hold the same array see   *)
(* each other's pushes and element assignments; heap[DefaultRulesRef] and  *)
(* heap[DefaultHopColorsRef] are the arrays of the DEFAULT_SETTINGS        *)
(* object.  maxHops and enabled stand for the scalar settings.  The views  *)
(* are leaf ids with their view type.                                      *)
DefaultRulesRef == 1

DefaultHopColorsRef == 2

NoLeaves == [l \in {} |-> ""]

(* loadSettings when the data file does not exist:                         *)
(* Object.assign({}, DEFAULT_SETTINGS, null) copies the array references.  *)
loadSettings ==
    [enabled |-> DEFAULT_SETTINGS.enabled,
     maxHops |-> DEFAULT_SETTINGS.maxHops,
     applyToGlobalGraph |-> DEFAULT_SETTINGS.applyToGlobalGraph,
     applyToLocalGraph |-> DEFAULT_SETTINGS.applyToLocalGraph,
     rules |-> DefaultRulesRef,
     hopColors |-> DefaultHopColorsRef,
     presets |-> DEFAULT_SETTINGS.presets,
     activePreset |-> DEFAULT_SETTINGS.activePreset]

InitPluginFields ==
    /\ heap = <<DEFAULT_SETTINGS.rules, DEFAULT_SETTINGS.hopColors>>
    /\ pluginSettings = loadSettings
    /\ lastEdit = [op |-> "load"]
    /\ leaves = NoLeaves
    /\ stylers = {}
    /\ lastStyled = {}
    /\ stylerOf = NoLeaves
    /\ created = 0
    /\ cleanedUp = {}

InitPlugin ==
    /\ InitPluginFields
    /\ InitSession

----------------------------------------------------------------------------
(* The vault and its metadata cache, as getStyleFromRules reads them:      *)
(* whether the path is a TFile, whether it has a file cache, its inline    *)
(* tags (with "#") and its frontmatter tags (with or without "#").         *)

NoFileInfo == [isFile |-> FALSE, hasCache |-> FALSE, tags |-> <<>>, fmTags |-> <<>>]

getAbstractFileByPath(nodeId) ==
    IF nodeId = nA
    THEN [isFile |-> TRUE, hasCache |-> TRUE, tags |-> << <<"#", "t">> >>, fmTags |-> <<>>]
    ELSE IF nodeId = nB
    THEN [isFile |-> TRUE, hasCache |-> TRUE, tags |-> <<>>, fmTags |-> << <<"t", "/", "s">> >>]
    ELSE IF nodeId = nC
    THEN [isFile |-> TRUE, hasCache |-> TRUE, tags |-> << <<"#", "t", "s">> >>, fmTags |-> <<>>]
    ELSE IF nodeId = nD
    THEN [isFile |-> TRUE, hasCache |-> FALSE, tags |-> <<>>, fmTags |-> <<>>]
    ELSE IF nodeId = nE
    THEN [isFile |-> TRUE, hasCache |-> TRUE, tags |-> <<>>, fmTags |-> <<>>]
    ELSE NoFileInfo

NormalizeTag(tag) == IF StartsWith(tag, <<"#">>) THEN tag ELSE <<"#">> \o tag

TagMatches(tag, normalizedPattern) ==
    tag = normalizedPattern \/ StartsWith(tag, normalizedPattern \o <<"/">>)

hasTag(file, tagPattern) ==
    /\ file.isFile
    /\ file.hasCache
    /\ LET normalizedPattern == NormalizeTag(tagPattern)
       IN  \/ \E i \in DOMAIN file.tags : TagMatches(file.tags[i], normalizedPattern)
           \/ \E i \in DOMAIN file.fmTags :
                 TagMatches(NormalizeTag(file.fmTags[i]), normalizedPattern)

----------------------------------------------------------------------------
(* GraphStyler.getStyleFromRules *)

FileRuleMatches(nodeId, pattern) ==
    \/ nodeId = pattern
    \/ EndsWith(nodeId, <<"/">> \o pattern)
    \/ nodeId = pattern \o <<".md">>
    \/ EndsWith(nodeId, <<"/">> \o pattern \o <<".md">>)

RuleMatches(rule, nodeId) ==
    IF rule.type = "folder" THEN StartsWith(nodeId, rule.pattern)
    ELSE IF rule.type = "tag" THEN hasTag(getAbstractFileByPath(nodeId), rule.pattern)
    ELSE IF rule.type = "file" THEN FileRuleMatches(nodeId, rule.pattern)
    ELSE FALSE

NoRuleStyle == [found |-> FALSE, color |-> NoColor, shape |-> NoShape, size |-> NoSize]

RuleStyle(rule) == [found |-> TRUE, color |-> rule.color, shape |-> rule.shape, size |-> rule.size]

(* the rule loop that does not skip disabled rules *)
RECURSIVE ruleLoopIgnoreEnabled(_, _, _)
ruleLoopIgnoreEnabled(rules, nodeId, i) ==
    IF i > Len(rules) THEN NoRuleStyle
    ELSE IF RuleMatches(rules[i], nodeId) THEN RuleStyle(rules[i])
    ELSE ruleLoopIgnoreEnabled(rules, nodeId, i + 1)

RECURSIVE ruleLoop(_, _, _)
ruleLoop(rules, nodeId, i) ==
    IF i > Len(rules) THEN NoRuleStyle
    ELSE IF ~rules[i].enabled THEN ruleLoop(rules, nodeId, i + 1)
    ELSE IF RuleMatches(rules[i], nodeId) THEN RuleStyle(rules[i])
    ELSE ruleLoop(rules, nodeId, i + 1)

getStyleFromRules(rules, nodeId) ==
    IF Len(rules) = 0 THEN NoRuleStyle ELSE ruleLoop(rules, nodeId, 1)

NoRuleRet == [op |-> "none", nodeId |-> <<>>, style |-> NoRuleStyle]

GetStyleFromRules(nodeId) ==
    /\ ruleRet' = [op |-> "getStyleFromRules", nodeId |-> nodeId,
                   style |-> getStyleFromRules(settings.rules, nodeId)]
    /\ UNCHANGED <<finderVars, settings, stylerVars, pluginVars, sessionVars>>

(* Specification of the rule matcher: every rule list of up to MaxRules    *)
(* rules, asked about every node id.                                       *)
RuleColors ==
    << <<"#", "1", "1", "2", "2", "3", "3">>, <<"#", "4", "4", "5", "5", "6", "6">>,
       <<"#", "7", "7", "8", "8", "9", "9">>, <<"#", "A", "A", "B", "B", "C", "C">> >>

RuleShapes == <<"square", "diamond", "triangle", "hexagon">>

RulePatterns ==
    {<<"folder", <<"P", "/">> >>,
     <<"tag", <<"t">> >>, <<"tag", <<"#", "t", "/", "s">> >>,
     <<"file", <<"D">> >>, <<"file", <<"D", ".md">> >>,
     <<"file", <<"P", "/", "D">> >>, <<"file", <<"P", "/", "D", ".md">> >>,
     <<"canvas", <<"P", "/">> >>}

(* the i-th rule of a list: its style fields are all unset or all set *)
RuleAt(i, tp, enabled, styled) ==
    [id |-> i, type |-> tp[1], pattern |-> tp[2], enabled |-> enabled,
     color |-> IF styled THEN RuleColors[i] ELSE NoColor,
     shape |-> IF styled THEN RuleShapes[i] ELSE NoShape,
     size |-> IF styled THEN 100 + 20 * i ELSE NoSize]

RulesOfLen(n) ==
    {[i \in 1..n |-> RuleAt(i, f[i][1], f[i][2], f[i][3])] :
        f \in [1..n -> RulePatterns \X BOOLEAN \X BOOLEAN]}

RuleNodeIds == {nA, nB, nC, nD, nE, nX}

InitRules ==
    /\ hostNodes = NoNodes("map", "set")
    /\ pending = 0
    /\ adjacencyList = EmptyAdj
    /\ nfInput = NoNodes("map", "set")
    /\ nfHist = "none"
    /\ ret = NoRet
    /\ \E n \in 0..MaxRules :
          settings \in {[DEFAULT_SETTINGS EXCEPT !.rules = rs] : rs \in RulesOfLen(n)}
    /\ ruleRet = NoRuleRet
    /\ InitStyler
    /\ InitPlugin

NextRules == \E n \in RuleNodeIds : GetStyleFromRules(n)

SpecRules == InitRules /\ [][NextRules]_vars

----------------------------------------------------------------------------
(* GraphStyler: colors.  A color string is its sequence of characters.     *)

(* Number.NaN *)
NaN == -1

HexDigits == <<"0", "1", "2", "3", "4", "5", "6", "7", "8", "9",
               "A", "B", "C", "D", "E", "F">>

HexLower == <<"a", "b", "c", "d", "e", "f">>

IsHexDigit(ch) == ch \in Range(HexDigits) \cup Range(HexLower)

HexValue(ch) ==
    IF ch \in Range(HexDigits)
    THEN (CHOOSE i \in DOMAIN HexDigits : HexDigits[i] = ch) - 1
    ELSE (CHOOSE i \in DOMAIN HexLower : HexLower[i] = ch) + 9

(* parseInt(s, 16) on a string without white space, sign or 0x prefix: the *)
(* value of the longest prefix of hex digits, NaN if that prefix is empty  *)
RECURSIVE parseIntLoop(_, _, _)
parseIntLoop(s, i, acc) ==
    IF i > Len(s) \/ ~IsHexDigit(s[i])
    THEN IF i = 1 THEN NaN ELSE acc
    ELSE parseIntLoop(s, i + 1, acc * 16 + HexValue(s[i]))

parseInt16(s) == parseIntLoop(s, 1, 0)

(* parseColor of a string; parseColor(undefined) throws instead *)
parseColor(color) ==
    IF StartsWith(color, <<"#">>) THEN parseInt16(Tail(color)) ELSE 16777215

GRAY == <<"#", "8", "8", "8", "8", "8", "8">>

(* a || b on colors: undefined and the empty string are falsy *)
Or(a, b) == IF a = NoColor \/ a = <<>> THEN b ELSE a

(* colors[i - 1] of the code: undefined outside the array *)
At(colors, i) == IF i \in DOMAIN colors THEN colors[i] ELSE NoColor

Put(f, k, v) == [x \in DOMAIN f \cup {k} |-> IF x = k THEN v ELSE f[x]]

----------------------------------------------------------------------------
(* GraphStyler.applyStyles: node styles *)

(* neighborsByHop.get(hop)?.has(nodeId) *)
(* the membership test that ignores which hop the node was found at *)
InHopAny(neighborsByHop, hop, nodeId) ==
    \E h \in DOMAIN neighborsByHop : nodeId \in neighborsByHop[h]

InHop(neighborsByHop, hop, nodeId) ==
    hop \in DOMAIN neighborsByHop /\ nodeId \in neighborsByHop[hop]

(* the hop level without the 'beyond maxHops but connected' case *)
hopLevelOfNoBeyond(nodeId, activeNodeId, neighborsByHop, allConnected, maxHops) ==
    IF activeNodeId = NoFile THEN -1
    ELSE IF nodeId = activeNodeId THEN 0
    ELSE LET hops == {hop \in 1..maxHops : InHop(neighborsByHop, hop, nodeId)}
         IN  IF hops # {} THEN CHOOSE hop \in hops : \A h \in hops : hop <= h
             ELSE -1

hopLevelOf(nodeId, activeNodeId, neighborsByHop, allConnected, maxHops) ==
    IF activeNodeId = NoFile THEN -1
    ELSE IF nodeId = activeNodeId THEN 0
    ELSE LET hops == {hop \in 1..maxHops : InHop(neighborsByHop, hop, nodeId)}
         IN  IF hops # {} THEN CHOOSE hop \in hops : \A h \in hops : hop <= h
             ELSE IF nodeId \in allConnected THEN maxHops + 1
             ELSE -1

(* the color chain with the hop color ahead of the rule color *)
nodeColorHopFirst(nodeId, activeNodeId, hopLevel, ruleStyle, st) ==
    IF activeNodeId # NoFile /\ nodeId = activeNodeId THEN st.selectedNodeColor
    ELSE IF hopLevel > 0 /\ hopLevel <= st.maxHops
    THEN Or(Or(At(st.hopColors, hopLevel), ruleStyle.color), At(st.hopColors, 1))
    ELSE IF activeNodeId = NoFile THEN Or(ruleStyle.color, At(st.hopColors, 1))
    ELSE Or(ruleStyle.color, GRAY)

nodeColor(nodeId, activeNodeId, hopLevel, ruleStyle, st) ==
    IF activeNodeId # NoFile /\ nodeId = activeNodeId THEN st.selectedNodeColor
    ELSE IF hopLevel > 0 /\ hopLevel <= st.maxHops
    THEN Or(Or(ruleStyle.color, At(st.hopColors, hopLevel)), At(st.hopColors, 1))
    ELSE IF activeNodeId = NoFile THEN Or(ruleStyle.color, At(st.hopColors, 1))
    ELSE Or(ruleStyle.color, GRAY)

(* the opacity without the branch for 'no active node' *)
nodeAlphaNoActiveDim(nodeId, activeNodeId, hopLevel, st) ==
    IF activeNodeId # NoFile /\ nodeId = activeNodeId THEN 100
    ELSE IF hopLevel > 0 /\ hopLevel <= st.maxHops THEN 100
    ELSE IF hopLevel = -1 THEN st.disconnectedOpacity
    ELSE 50

nodeAlpha(nodeId, activeNodeId, hopLevel, st) ==
    IF activeNodeId # NoFile /\ nodeId = activeNodeId THEN 100
    ELSE IF hopLevel > 0 /\ hopLevel <= st.maxHops THEN 100
    ELSE IF activeNodeId = NoFile THEN 100
    ELSE IF hopLevel = -1 THEN st.disconnectedOpacity
    ELSE 50

(* the size with the rule size ahead of the active size *)
nodeSizeRuleFirst(nodeId, activeNodeId, ruleStyle, st) ==
    IF ruleStyle.size # NoSize THEN ruleStyle.size
    ELSE IF activeNodeId # NoFile /\ nodeId = activeNodeId THEN st.activeNodeSize
    ELSE st.defaultNodeSize

nodeSize(nodeId, activeNodeId, ruleStyle, st) ==
    IF activeNodeId # NoFile /\ nodeId = activeNodeId THEN st.activeNodeSize
    ELSE IF ruleStyle.size # NoSize THEN ruleStyle.size
    ELSE st.defaultNodeSize

nodeShape(ruleStyle, st) ==
    IF ruleStyle.shape # NoShape THEN ruleStyle.shape ELSE st.defaultNodeShape

(* const multiplier = size || 1.0 *)
Multiplier(size) == IF size = NoSize THEN 100 ELSE size

(* The loop over the node entries.  acc.ok turns FALSE where parseColor    *)
(* throws on an undefined color: the hop level of that node is cached, its *)
(* style and everything after it is not.  acc.scaled collects the nodes    *)
(* whose circle the immediate apply has multiplied.                        *)
RECURSIVE styleNodes(_, _, _, _, _, _, _)
styleNodes(entries, i, activeNodeId, neighborsByHop, allConnected, st, acc) ==
    IF i > Len(entries) THEN acc
    ELSE LET nodeId == entries[i].id
             hopLevel == hopLevelOf(nodeId, activeNodeId, neighborsByHop,
                                    allConnected, st.maxHops)
             levels == Put(acc.levels, nodeId, hopLevel)
             ruleStyle == getStyleFromRules(st.rules, nodeId)
             color == nodeColor(nodeId, activeNodeId, hopLevel, ruleStyle, st)
             style == [tint |-> parseColor(color),
                       alpha |-> nodeAlpha(nodeId, activeNodeId, hopLevel, st),
                       shape |-> nodeShape(ruleStyle, st),
                       size |-> nodeSize(nodeId, activeNodeId, ruleStyle, st)]
         IN  IF color = NoColor
             THEN [acc EXCEPT !.levels = levels, !.ok = FALSE]
             ELSE styleNodes(entries, i + 1, activeNodeId, neighborsByHop, allConnected, st,
                             [acc EXCEPT !.levels = levels,
                                         !.styles = Put(acc.styles, nodeId, style),
                                         !.scaled = IF Multiplier(style.size) # 100
                                                    THEN @ \cup {nodeId} ELSE @])

----------------------------------------------------------------------------
(* GraphStyler.applyEdgeStyles *)

(* the larger of the two instead *)
MinAsMax(a, b) == IF a <= b THEN b ELSE a

Min(a, b) == IF a <= b THEN a ELSE b

(* the range test that looks at the first hop only *)
isInRangeFirstHop(nodeId, neighborsByHop, maxHops) ==
    /\ nodeId # <<>>
    /\ InHop(neighborsByHop, 1, nodeId)

isInRange(nodeId, neighborsByHop, maxHops) ==
    /\ nodeId # <<>>
    /\ \E hop \in 1..maxHops : InHop(neighborsByHop, hop, nodeId)

(* renderer.links: one link object for each forward link of a node *)
rendererLinks(nodes) == HostLinks(nodes)

(* the style of a link that takes every node to be in range when no node  *)
(* is active                                                               *)
edgeStyleNoActiveInRange(sourceId, targetId, activeNodeId, neighborsByHop, st, styles, levels) ==
    LET sourceIsActive == activeNodeId # NoFile /\ sourceId = activeNodeId
        targetIsActive == activeNodeId # NoFile /\ targetId = activeNodeId
        sourceInRange == activeNodeId = NoFile \/ isInRange(sourceId, neighborsByHop, st.maxHops)
        targetInRange == activeNodeId = NoFile \/ isInRange(targetId, neighborsByHop, st.maxHops)
        hasStyle == sourceId \in DOMAIN styles
        sourceHop == IF sourceId \in DOMAIN levels THEN levels[sourceId] ELSE -1
        targetHop == IF targetId \in DOMAIN levels THEN levels[targetId] ELSE -1
        Infinity == st.maxHops + 2
        minHop == Min(IF sourceHop > 0 THEN sourceHop ELSE Infinity,
                      IF targetHop > 0 THEN targetHop ELSE Infinity)
    IN  CASE st.edgeColorMode = "inherit" ->
               [tint |-> IF hasStyle THEN styles[sourceId].tint ELSE parseColor(GRAY),
                alpha |-> IF sourceIsActive \/ targetIsActive THEN 100
                          ELSE IF sourceInRange /\ targetInRange
                          THEN Min(IF hasStyle THEN styles[sourceId].alpha ELSE 80, 80)
                          ELSE st.disconnectedOpacity,
                width |-> IF sourceIsActive \/ targetIsActive THEN st.activeEdgeWidth
                          ELSE IF sourceInRange /\ targetInRange THEN st.defaultEdgeWidth
                          ELSE st.disconnectedEdgeWidth]
          [] st.edgeColorMode = "by-hop" ->
               IF sourceIsActive \/ targetIsActive
               THEN [tint |-> parseColor(Or(At(st.hopEdgeColors, 1), st.edgeColor)),
                     alpha |-> 100, width |-> st.activeEdgeWidth]
               ELSE IF minHop <= st.maxHops
               THEN [tint |-> parseColor(Or(At(st.hopEdgeColors, minHop), st.edgeColor)),
                     alpha |-> 70, width |-> st.defaultEdgeWidth]
               ELSE IF minHop # Infinity
               THEN [tint |-> parseColor(st.edgeColor),
                     alpha |-> 40, width |-> st.disconnectedEdgeWidth]
               ELSE [tint |-> parseColor(st.edgeColor),
                     alpha |-> IF activeNodeId = NoFile THEN 70 ELSE st.disconnectedOpacity,
                     width |-> st.disconnectedEdgeWidth]
          [] OTHER ->
               IF sourceIsActive \/ targetIsActive
               THEN [tint |-> parseColor(st.highlightedEdgeColor),
                     alpha |-> 100, width |-> st.activeEdgeWidth]
               ELSE IF sourceInRange /\ targetInRange
               THEN [tint |-> parseColor(st.edgeColor),
                     alpha |-> 80, width |-> st.defaultEdgeWidth]
               ELSE [tint |-> parseColor(st.edgeColor),
                     alpha |-> st.disconnectedOpacity, width |-> st.disconnectedEdgeWidth]

(* the style of the link from sourceId to targetId; in 'by-hop' mode       *)
(* st.maxHops + 2, which no hop level reaches, stands for Infinity         *)
edgeStyle(sourceId, targetId, activeNodeId, neighborsByHop, st, styles, levels) ==
    LET sourceIsActive == activeNodeId # NoFile /\ sourceId = activeNodeId
        targetIsActive == activeNodeId # NoFile /\ targetId = activeNodeId
        sourceInRange == isInRange(sourceId, neighborsByHop, st.maxHops)
        targetInRange == isInRange(targetId, neighborsByHop, st.maxHops)
        hasStyle == sourceId \in DOMAIN styles
        sourceHop == IF sourceId \in DOMAIN levels THEN levels[sourceId] ELSE -1
        targetHop == IF targetId \in DOMAIN levels THEN levels[targetId] ELSE -1
        Infinity == st.maxHops + 2
        minHop == Min(IF sourceHop > 0 THEN sourceHop ELSE Infinity,
                      IF targetHop > 0 THEN targetHop ELSE Infinity)
    IN  CASE st.edgeColorMode = "inherit" ->
               [tint |-> IF hasStyle THEN styles[sourceId].tint ELSE parseColor(GRAY),
                alpha |-> IF sourceIsActive \/ targetIsActive THEN 100
                          ELSE IF sourceInRange /\ targetInRange
                          THEN Min(IF hasStyle THEN styles[sourceId].alpha ELSE 80, 80)
                          ELSE st.disconnectedOpacity,
                width |-> IF sourceIsActive \/ targetIsActive THEN st.activeEdgeWidth
                          ELSE IF sourceInRange /\ targetInRange THEN st.defaultEdgeWidth
                          ELSE st.disconnectedEdgeWidth]
          [] st.edgeColorMode = "by-hop" ->
               IF sourceIsActive \/ targetIsActive
               THEN [tint |-> parseColor(Or(At(st.hopEdgeColors, 1), st.edgeColor)),
                     alpha |-> 100, width |-> st.activeEdgeWidth]
               ELSE IF minHop <= st.maxHops
               THEN [tint |-> parseColor(Or(At(st.hopEdgeColors, minHop), st.edgeColor)),
                     alpha |-> 70, width |-> st.defaultEdgeWidth]
               ELSE IF minHop # Infinity
               THEN [tint |-> parseColor(st.edgeColor),
                     alpha |-> 40, width |-> st.disconnectedEdgeWidth]
               ELSE [tint |-> parseColor(st.edgeColor),
                     alpha |-> st.disconnectedOpacity, width |-> st.disconnectedEdgeWidth]
          [] OTHER ->
               IF sourceIsActive \/ targetIsActive
               THEN [tint |-> parseColor(st.highlightedEdgeColor),
                     alpha |-> 100, width |-> st.activeEdgeWidth]
               ELSE IF sourceInRange /\ targetInRange
               THEN [tint |-> parseColor(st.edgeColor),
                     alpha |-> 80, width |-> st.defaultEdgeWidth]
               ELSE [tint |-> parseColor(st.edgeColor),
                     alpha |-> st.disconnectedOpacity, width |-> st.disconnectedEdgeWidth]

(* the links styled without the node styles of the pass *)
applyEdgeStylesBeforeNodes(links, activeNodeId, neighborsByHop, st, styles, levels, old) ==
    [l \in DOMAIN old \cup links |->
        IF l \in links
        THEN edgeStyle(l[1], l[2], activeNodeId, neighborsByHop, st, NoStyles, levels)
        ELSE old[l]]

(* every current link gets its style; the entries of other links stay *)
applyEdgeStyles(links, activeNodeId, neighborsByHop, st, styles, levels, old) ==
    [l \in DOMAIN old \cup links |->
        IF l \in links
        THEN edgeStyle(l[1], l[2], activeNodeId, neighborsByHop, st, styles, levels)
        ELSE old[l]]

----------------------------------------------------------------------------
(* GraphStyler.applyStyles and its environment *)

clearStyles ==
    /\ nodeStyles' = NoStyles
    /\ edgeStyles' = NoStyles
    /\ nodeHopLevels' = NoStyles

(* One recomputation pass.  ruleRet keeps the last direct call of          *)
(* getStyleFromRules; the calls of the pass show in nodeStyles.            *)
(* a scale multiplied MaxScaled times is not told from one multiplied more *)
MaxScaled == 3

(* The node object the host holds under an id is the pair of the id and    *)
(* the number of times the host has replaced the object of this id.        *)
ObjectOf(id) == <<id, IF id \in DOMAIN nodeObject THEN nodeObject[id] ELSE 0>>

(* A render method: the host's own method drawing the object it is bound   *)
(* to, with or without the styling proxy around it.                        *)
Original(obj) == [proxy |-> FALSE, draws |-> obj]

RenderOf(obj) == IF obj \in DOMAIN render THEN render[obj] ELSE Original(obj)

LinkRenderOf(l) == IF l \in DOMAIN linkRender THEN linkRender[l] ELSE Original(l)

(* scale *= multiplier on every object of K.  A scale is followed from    *)
(* the frame in which the host has set it: scale[k] is the number of       *)
(* times the styler has multiplied it since.                               *)
Multiplied(scale, K) ==
    [k \in DOMAIN scale |-> IF k \in K THEN Min(MaxScaled, scale[k] + 1) ELSE scale[k]]

(* GraphStyler.setupRenderProxy on the nodes of these ids *)
setupRenderProxy(ids) ==
    \E new \in {ids \ proxiedNodes} :
        /\ originalRenderMethods' =
               [id \in DOMAIN originalRenderMethods \cup new |->
                   IF id \in new THEN RenderOf(ObjectOf(id)).draws
                   ELSE originalRenderMethods[id]]
        /\ render' = [o \in DOMAIN render \cup {ObjectOf(id) : id \in new} |->
                         IF o[1] \in new /\ o = ObjectOf(o[1])
                         THEN [proxy |-> TRUE, draws |-> RenderOf(o).draws]
                         ELSE render[o]]
        /\ proxiedNodes' = proxiedNodes \cup new

(* GraphStyler.setupLinkRenderProxy on these links *)
setupLinkRenderProxy(links) ==
    \E new \in {links \ proxiedLinks} :
        /\ originalLinkRenderMethods' = originalLinkRenderMethods \cup new
        /\ linkRender' = [l \in DOMAIN linkRender \cup new |->
                             IF l \in new THEN [proxy |-> TRUE, draws |-> LinkRenderOf(l).draws]
                             ELSE linkRender[l]]
        /\ proxiedLinks' = proxiedLinks \cup new

(* applyStyles() of a styler whose settings are st, after its caller has   *)
(* set up the proxies of tickNodes and tickLinks                           *)
stylePass(st, tickNodes, tickLinks) ==
    IF ~st.enabled
    THEN /\ clearStyles
         /\ lastPass' = [op |-> "cleared", activeNodeId |-> NoFile]
         /\ UNCHANGED <<finderVars, ruleRet, activeFile, lastActiveNodeId,
                        proxiedNodes, proxiedLinks, originalRenderMethods,
                        originalLinkRenderMethods, objectVars>>
    ELSE IF ~rendererReady
    THEN /\ lastPass' = [op |-> "noRenderer", activeNodeId |-> NoFile]
         /\ UNCHANGED <<finderVars, ruleRet, activeFile, lastActiveNodeId, nodeHopLevels,
                        nodeStyles, edgeStyles, proxiedNodes, proxiedLinks,
                        originalRenderMethods, originalLinkRenderMethods, objectVars>>
    ELSE \E activeNodeId \in {IF activeFile # NoFile THEN activeFile ELSE lastActiveNodeId},
            adj \in {buildFromNodes(adjacencyList, hostNodes)} :
         \E neighborsByHop \in {IF activeNodeId # NoFile
                                THEN findNeighborsByHop(adj, activeNodeId, st.maxHops)
                                ELSE <<>>},
            allConnected \in {IF activeNodeId # NoFile
                              THEN getAllConnectedNodes(adj, activeNodeId)
                              ELSE {}} :
         \E pass \in {styleNodes(nodeEntriesOf(hostNodes), 1, activeNodeId, neighborsByHop,
                                 allConnected, st,
                                 [levels |-> NoStyles, styles |-> nodeStyles, ok |-> TRUE,
                                  scaled |-> {}])} :
         \E links \in {IF pass.ok THEN rendererLinks(hostNodes) ELSE {}} :
             /\ lastActiveNodeId' = activeNodeId
             /\ adjacencyList' = adj
             /\ nfInput' = hostNodes
             /\ nfHist' = BuildHist(adjacencyList, adj)
             /\ ret' = IF activeNodeId # NoFile
                       THEN [NoRet EXCEPT !.op = "getAllConnectedNodes",
                                          !.sourceId = activeNodeId,
                                          !.connected = allConnected]
                       ELSE [NoRet EXCEPT !.op = "buildFromNodes"]
             /\ pending' = 0
             /\ nodeHopLevels' = pass.levels
             /\ nodeStyles' = pass.styles
             /\ edgeStyles' = IF pass.ok
                              THEN applyEdgeStyles(rendererLinks(hostNodes), activeNodeId,
                                                   neighborsByHop, st, pass.styles,
                                                   pass.levels, edgeStyles)
                              ELSE edgeStyles
             /\ lastPass' = [op |-> IF pass.ok THEN "styled" ELSE "threw",
                             activeNodeId |-> activeNodeId]
             /\ setupRenderProxy(tickNodes \cup DOMAIN pass.levels)
             /\ setupLinkRenderProxy(tickLinks \cup links)
             /\ circleScale' = Multiplied(circleScale, {ObjectOf(id) : id \in pass.scaled})
             /\ lineScale' = Multiplied(lineScale, {l \in links : edgeStyles'[l].width # 100})
             /\ UNCHANGED <<hostNodes, ruleRet, activeFile, nodeObject>>

(* One recomputation pass of a styler that is constructed and not ticking. *)
ApplyStyles ==
    /\ stylePass(settings, {}, {})
    /\ UNCHANGED <<settings, pluginVars, bfs, eventVars, lifeVars, lastNodeCount, lastLinkCount, lastRun>>

(* The workspace reports another active file, or none. *)
OpenFile(f) ==
    /\ f # activeFile
    /\ pending < MaxPending
    /\ activeFile' = f
    /\ pending' = pending + 1
    /\ UNCHANGED <<hostNodes, adjacencyList, nfInput, nfHist, ret, settings, ruleRet,
                   lastActiveNodeId, nodeHopLevels, nodeStyles, edgeStyles, lastPass,
                   pluginVars, sessionVars>>

(* Specification of the styler: the four nodes, linked one link at a time  *)
(* into the chain A - B - P/C - P/D, the active file moving between two of *)
(* them, a file outside the graph and none, and a pass after each change.  *)
MaxHopsSetting == 2

StylerLinks == {<<nA, nB>>, <<nB, nC>>, <<nC, nD>>}

ActiveFiles == {NoFile, nA, nC, nX}

EdgeColorModes == {"inherit", "by-hop", "single"}

StylerRuleLists ==
    { <<>>,
      <<RuleAt(1, <<"folder", <<"P", "/">> >>, TRUE, TRUE)>>,
      <<RuleAt(1, <<"file", <<"A">> >>, TRUE, TRUE)>>,
      <<RuleAt(1, <<"tag", <<"t">> >>, TRUE, FALSE),
        RuleAt(2, <<"folder", <<"P", "/">> >>, TRUE, TRUE)>>,
      <<RuleAt(1, <<"folder", <<>> >>, TRUE, FALSE),
        RuleAt(2, <<"folder", <<"P", "/">> >>, TRUE, TRUE)>>,
      <<RuleAt(1, <<"folder", <<"P", "/">> >>, FALSE, TRUE),
        RuleAt(2, <<"folder", <<>> >>, TRUE, TRUE)>> }

StylerSettings ==
    {[DEFAULT_SETTINGS EXCEPT !.maxHops = m, !.edgeColorMode = em, !.rules = rs] :
        m \in 1..MaxHopsSetting, em \in EdgeColorModes, rs \in StylerRuleLists}

InitStylerSpec ==
    /\ hostNodes = [shape |-> "map", links |-> "set",
                    items |-> [i \in 1..Len(IdSeq) |-> [id |-> IdSeq[i], node |-> EmptyNode]]]
    /\ pending = 0
    /\ adjacencyList = EmptyAdj
    /\ nfInput = NoNodes("map", "set")
    /\ nfHist = "none"
    /\ ret = NoRet
    /\ settings \in StylerSettings
    /\ ruleRet = NoRuleRet
    /\ InitStyler
    /\ InitPlugin

NextStyler ==
    \/ \E l \in StylerLinks : HostLink(l[1], l[2])
    \/ \E f \in ActiveFiles : OpenFile(f)
    \/ ApplyStyles

SpecStyler == InitStylerSpec /\ [][NextStyler]_vars

(* Specification of the styler over a graph that loses nodes: the chain    *)
(* of SpecStyler under the default settings with the edges inheriting the  *)
(* color of their source, with and without a rule; the graph view may drop *)
(* the second and the last node of the chain.                              *)
RemovalRuleLists == { <<>>, <<RuleAt(1, <<"folder", <<"P", "/">> >>, TRUE, TRUE)>> }

RemovalSettings ==
    {[DEFAULT_SETTINGS EXCEPT !.edgeColorMode = "inherit", !.rules = rs] :
        rs \in RemovalRuleLists}

DroppedNodes == {nB, nD}

RemovalFiles == {NoFile, nA}

InitRemoval ==
    /\ hostNodes = [shape |-> "map", links |-> "set",
                    items |-> [i \in 1..Len(IdSeq) |-> [id |-> IdSeq[i], node |-> EmptyNode]]]
    /\ pending = 0
    /\ adjacencyList = EmptyAdj
    /\ nfInput = NoNodes("map", "set")
    /\ nfHist = "none"
    /\ ret = NoRet
    /\ settings \in RemovalSettings
    /\ ruleRet = NoRuleRet
    /\ InitStyler
    /\ InitPlugin

NextRemoval ==
    \/ \E l \in StylerLinks : HostLink(l[1], l[2])
    \/ \E id \in DroppedNodes : HostDropNode(id)
    \/ \E f \in RemovalFiles : OpenFile(f)
    \/ ApplyStyles

SpecRemoval == InitRemoval /\ [][NextRemoval]_vars

(* Specification of the styler under a palette shorter than maxHops, as    *)
(* applyPreset leaves it when the preset read from the data file has one:  *)
(* the hop colors and the hop edge colors are the first MaxPalette default *)
(* colors or fewer.                                                        *)
MaxPalette == 1

ShortPalettes == {SubSeq(DEFAULT_HOP_COLORS, 1, n) : n \in 0..MaxPalette}

PaletteRuleLists ==
    { <<>>, <<RuleAt(1, <<"folder", <<"P", "/">> >>, TRUE, TRUE)>> }

PaletteSettings ==
    {[DEFAULT_SETTINGS EXCEPT !.maxHops = m, !.edgeColorMode = em, !.rules = rs,
                              !.hopColors = p, !.hopEdgeColors = p] :
        m \in 2..(MaxPalette + 1), em \in {"by-hop", "single"},
        rs \in PaletteRuleLists, p \in ShortPalettes}

InitPalette ==
    /\ hostNodes = [shape |-> "map", links |-> "set",
                    items |-> [i \in 1..Len(IdSeq) |-> [id |-> IdSeq[i], node |-> EmptyNode]]]
    /\ pending = 0
    /\ adjacencyList = EmptyAdj
    /\ nfInput = NoNodes("map", "set")
    /\ nfHist = "none"
    /\ ret = NoRet
    /\ settings \in PaletteSettings
    /\ ruleRet = NoRuleRet
    /\ InitStyler
    /\ InitPlugin

SpecPalette == InitPalette /\ [][NextStyler]_vars

----------------------------------------------------------------------------
(* The settings tab and the plugin.  Every handler ends with saveSettings, *)
(* which runs updateAllStylers: each styler of the map takes the settings  *)
(* and styles its view.                                                    *)
MaxRuleList == 1

MaxHeap == 3

PresetNames == {"p"}

SettingsRules ==
    {RuleAt(1, <<"folder", <<"P", "/">> >>, TRUE, TRUE),
     RuleAt(2, <<"tag", <<"t">> >>, TRUE, TRUE)}

PickedColors == {RuleColors[1]}

SettingsMaxHops == {1, DEFAULT_SETTINGS.maxHops}

Splice(seq, index) ==
    [j \in 1..(Len(seq) - 1) |-> IF j < index THEN seq[j] ELSE seq[j + 1]]

FindPreset(presets, name) ==
    IF \E i \in DOMAIN presets : presets[i].name = name
    THEN CHOOSE i \in DOMAIN presets :
            /\ presets[i].name = name
            /\ \A j \in DOMAIN presets : presets[j].name = name => i <= j
    ELSE 0

saveSettings(ps, hp, op) ==
    /\ lastEdit.op # "unload"
    /\ pluginSettings' = ps
    /\ heap' = hp
    /\ lastEdit' = [op |-> op]
    /\ lastStyled' = stylers
    /\ UNCHANGED <<finderVars, settings, ruleRet, stylerVars, leaves, stylers, registryVars, sessionVars>>

AddRule(rule) ==
    /\ Len(heap[pluginSettings.rules]) < MaxRuleList
    /\ saveSettings(pluginSettings,
                    [heap EXCEPT ![pluginSettings.rules] = Append(@, rule)], "addRule")

EditRule(index, updatedRule) ==
    /\ index \in DOMAIN heap[pluginSettings.rules]
    /\ heap[pluginSettings.rules][index] # updatedRule
    /\ saveSettings(pluginSettings,
                    [heap EXCEPT ![pluginSettings.rules][index] = updatedRule], "editRule")

DeleteRule(index) ==
    /\ index \in DOMAIN heap[pluginSettings.rules]
    /\ saveSettings(pluginSettings,
                    [heap EXCEPT ![pluginSettings.rules] = Splice(@, index)], "deleteRule")

SetHopColor(i, value) ==
    /\ i \in 0..(pluginSettings.maxHops - 1)
    /\ heap[pluginSettings.hopColors][i + 1] # value
    /\ saveSettings(pluginSettings,
                    [heap EXCEPT ![pluginSettings.hopColors][i + 1] = value], "hopColor")

SetMaxHops(value) ==
    /\ value # pluginSettings.maxHops
    /\ saveSettings([pluginSettings EXCEPT !.maxHops = value], heap, "maxHops")

(* Save: the preset takes every setting but presets and activePreset; the  *)
(* rules array is copied, every other array is the one of the settings.    *)
SavePreset(name) ==
    /\ Len(heap) < MaxHeap
    /\ \E newPreset \in {[name |-> name,
                          settings |-> [enabled |-> pluginSettings.enabled,
                                        maxHops |-> pluginSettings.maxHops,
                                        applyToGlobalGraph |-> pluginSettings.applyToGlobalGraph,
                                        applyToLocalGraph |-> pluginSettings.applyToLocalGraph,
                                        rules |-> Len(heap) + 1,
                                        hopColors |-> pluginSettings.hopColors]]},
          existingIndex \in {FindPreset(pluginSettings.presets, name)} :
            saveSettings([pluginSettings EXCEPT
                              !.presets = IF existingIndex > 0
                                          THEN [@ EXCEPT ![existingIndex] = newPreset]
                                          ELSE Append(@, newPreset),
                              !.activePreset = name],
                         Append(heap, heap[pluginSettings.rules]), "savePreset")

applyPreset(presetName) ==
    \E i \in {FindPreset(pluginSettings.presets, presetName)} :
        /\ i > 0
        /\ \E p \in {pluginSettings.presets[i].settings} :
            saveSettings([pluginSettings EXCEPT
                              !.enabled = p.enabled,
                              !.maxHops = p.maxHops,
                              !.applyToGlobalGraph = p.applyToGlobalGraph,
                              !.applyToLocalGraph = p.applyToLocalGraph,
                              !.rules = p.rules,
                              !.hopColors = p.hopColors,
                              !.activePreset = presetName],
                         heap, "applyPreset")

DeletePreset(index) ==
    /\ index \in DOMAIN pluginSettings.presets
    /\ saveSettings([pluginSettings EXCEPT
                         !.presets = Splice(@, index),
                         !.activePreset =
                             IF @ = pluginSettings.presets[index].name THEN "" ELSE @],
                    heap, "deletePreset")

(* Reset: { ...DEFAULT_SETTINGS, presets, activePreset } takes the array   *)
(* references of DEFAULT_SETTINGS.                                         *)
ResetToDefaults ==
    \E presets \in {pluginSettings.presets}, activePreset \in {pluginSettings.activePreset} :
        saveSettings([loadSettings EXCEPT !.presets = presets, !.activePreset = activePreset],
                     heap, "reset")

(* Specification of the settings tab from a fresh install.                 *)
InitSettings ==
    /\ hostNodes = NoNodes("map", "set")
    /\ pending = 0
    /\ adjacencyList = EmptyAdj
    /\ nfInput = NoNodes("map", "set")
    /\ nfHist = "none"
    /\ ret = NoRet
    /\ settings = DEFAULT_SETTINGS
    /\ ruleRet = NoRuleRet
    /\ InitStyler
    /\ InitPlugin

NextSettings ==
    \/ \E rule \in SettingsRules : AddRule(rule)
    \/ \E index \in 1..MaxRuleList, rule \in SettingsRules : EditRule(index, rule)
    \/ \E index \in 1..MaxRuleList : DeleteRule(index)
    \/ \E i \in 0..4, value \in PickedColors : SetHopColor(i, value)
    \/ \E value \in SettingsMaxHops : SetMaxHops(value)
    \/ \E name \in PresetNames : SavePreset(name)
    \/ \E name \in PresetNames : applyPreset(name)
    \/ \E index \in 1..Cardinality(PresetNames) : DeletePreset(index)
    \/ ResetToDefaults

SpecSettings == InitSettings /\ [][NextSettings]_vars

(* The graph views of the workspace and the stylers map.  The workspace    *)
(* fires layout-change when a view opens or closes, and at other times.    *)
MaxLeaves == 2

LeafIds == 1..MaxLeaves

ViewTypes == {"graph", "localgraph"}

getLeavesOfType(lv, type) == {l \in DOMAIN lv : lv[l] = type}

getGraphLeaves(lv) ==
    (IF pluginSettings.applyToGlobalGraph THEN getLeavesOfType(lv, "graph") ELSE {})
        \cup (IF pluginSettings.applyToLocalGraph THEN getLeavesOfType(lv, "localgraph") ELSE {})

MaxStylers == 3

(* the position of leaf l among the leaves of N, in the order of the ids *)
RankIn(N, l) == Cardinality({k \in N : k <= l})

(* handleLayoutChange that drops a styler without calling its cleanup() *)
handleLayoutChangeNoCleanup(lv) ==
    \E graphLeaves \in {getGraphLeaves(lv)} :
    \E removed \in {{l \in stylers : l \notin graphLeaves}},
       added \in {{l \in graphLeaves : l \notin stylers}} :
        /\ lastEdit.op # "unload"
        /\ created + Cardinality(added) <= MaxStylers
        /\ stylers' = (stylers \ removed) \cup added
        /\ stylerOf' = [l \in (stylers \ removed) \cup added |->
                           IF l \in added THEN created + RankIn(added, l) ELSE stylerOf[l]]
        /\ created' = created + Cardinality(added)
        /\ cleanedUp' = cleanedUp
        /\ leaves' = lv
        /\ lastEdit' = [op |-> "layoutChange"]
        /\ UNCHANGED <<finderVars, settings, ruleRet, stylerVars,
                       heap, pluginSettings, lastStyled, sessionVars>>

(* lv is the workspace at the time of the event.  The stylers of the       *)
(* leaves that are no longer among the graph leaves are cleaned up and     *)
(* deleted, then each graph leaf without a styler gets a new GraphStyler.  *)
handleLayoutChange(lv) ==
    \E graphLeaves \in {getGraphLeaves(lv)} :
    \E removed \in {{l \in stylers : l \notin graphLeaves}},
       added \in {{l \in graphLeaves : l \notin stylers}} :
        /\ lastEdit.op # "unload"
        /\ created + Cardinality(added) <= MaxStylers
        /\ stylers' = (stylers \ removed) \cup added
        /\ stylerOf' = [l \in (stylers \ removed) \cup added |->
                           IF l \in added THEN created + RankIn(added, l) ELSE stylerOf[l]]
        /\ created' = created + Cardinality(added)
        /\ cleanedUp' = cleanedUp \cup {stylerOf[l] : l \in removed}
        /\ leaves' = lv
        /\ lastEdit' = [op |-> "layoutChange"]
        /\ UNCHANGED <<finderVars, settings, ruleRet, stylerVars,
                       heap, pluginSettings, lastStyled, sessionVars>>

OpenView(l, type) ==
    /\ l \notin DOMAIN leaves
    /\ handleLayoutChange([k \in DOMAIN leaves \cup {l} |-> IF k = l THEN type ELSE leaves[k]])

CloseView(l) ==
    /\ l \in DOMAIN leaves
    /\ handleLayoutChange([k \in DOMAIN leaves \ {l} |-> leaves[k]])

LayoutChange ==
    \E lv \in {leaves} : handleLayoutChange(lv)

SetApplyToGlobalGraph(value) ==
    /\ value # pluginSettings.applyToGlobalGraph
    /\ saveSettings([pluginSettings EXCEPT !.applyToGlobalGraph = value], heap, "applyToGlobalGraph")

SetApplyToLocalGraph(value) ==
    /\ value # pluginSettings.applyToLocalGraph
    /\ saveSettings([pluginSettings EXCEPT !.applyToLocalGraph = value], heap, "applyToLocalGraph")

(* Specification of the scope settings: views open and close, the two      *)
(* toggles of "Apply To" are switched.                                     *)
NextScope ==
    \/ \E l \in LeafIds, type \in ViewTypes : OpenView(l, type)
    \/ \E l \in LeafIds : CloseView(l)
    \/ LayoutChange
    \/ \E value \in BOOLEAN : SetApplyToGlobalGraph(value)
    \/ \E value \in BOOLEAN : SetApplyToLocalGraph(value)

SpecScope == InitSettings /\ [][NextScope]_vars

(* onunload: every styler of the map is cleaned up and the map is cleared; *)
(* the events and the settings tab of the plugin are unregistered.         *)
Unload ==
    /\ lastEdit.op # "unload"
    /\ cleanedUp' = cleanedUp \cup {stylerOf[l] : l \in stylers}
    /\ stylers' = {}
    /\ stylerOf' = NoLeaves
    /\ lastEdit' = [op |-> "unload"]
    /\ UNCHANGED <<finderVars, settings, ruleRet, stylerVars,
                   heap, pluginSettings, leaves, lastStyled, created, sessionVars>>

(* Specification of the stylers map over the life of the plugin.           *)
NextRegistry ==
    \/ \E l \in LeafIds, type \in ViewTypes : OpenView(l, type)
    \/ \E l \in LeafIds : CloseView(l)
    \/ LayoutChange
    \/ \E value \in BOOLEAN : SetApplyToGlobalGraph(value)
    \/ \E value \in BOOLEAN : SetApplyToLocalGraph(value)
    \/ Unload

SpecRegistry == InitSettings /\ [][NextRegistry]_vars

----------------------------------------------------------------------------
(* The life of one styler: GraphStyler.initialize, checkForChanges,        *)
(* updateSettings, cleanup, and the graph view around them.                *)

MaxReplaced == 1

Ran(op, pass, newProxies) == [op |-> op, pass |-> pass, newProxies |-> newProxies]

(* updateAllStylers runs its two calls on a styler without a break: no     *)
(* other callback and no frame of the host comes between them.             *)
Idle == lastRun.op # "updateSettings"

(* The view of the leaf gets its renderer. *)
RendererReady ==
    /\ Idle
    /\ ~rendererReady
    /\ rendererReady' = TRUE
    /\ UNCHANGED <<finderVars, settings, ruleRet, stylerVars, pluginVars, bfs, eventVars,
                   isInitialized, initTimer, rafId, disposed, proxyVars, objectVars, lastRun>>

(* The host replaces the node object of an id by a new object. *)
HostReplaceNode(id) ==
    /\ Idle
    /\ rendererReady
    /\ id \in ItemIds(hostNodes)
    /\ ObjectOf(id)[2] < MaxReplaced
    /\ nodeObject' = Put(nodeObject, id, ObjectOf(id)[2] + 1)
    /\ UNCHANGED <<finderVars, settings, ruleRet, stylerVars, pluginVars, bfs, eventVars, lifeVars,
                   proxyVars, render, linkRender, circleScale, lineScale, lastRun>>

(* The host gives a node another id, as when its note is renamed. *)
HostRenameNode(from, to) ==
    /\ Idle
    /\ from \in ItemIds(hostNodes)
    /\ to \notin ItemIds(hostNodes)
    /\ LET renamed(linkData) ==
               [linkData EXCEPT !.elems =
                   [k \in DOMAIN @ |-> IF @[k].id = from THEN [@[k] EXCEPT !.id = to] ELSE @[k]]]
       IN  Host([hostNodes EXCEPT !.items =
                    [j \in DOMAIN @ |->
                        [id |-> IF @[j].id = from THEN to ELSE @[j].id,
                         node |-> [@[j].node EXCEPT !.forward = renamed(@),
                                                    !.reverse = renamed(@)]]]])

(* One frame of the host: it calls render() on every node and link of the  *)
(* renderer.  The host's method sets the scale of the object it is bound   *)
(* to; a proxy then multiplies the scale of the object it was put on.      *)
HostRender ==
    /\ Idle
    /\ rendererReady
    /\ \E nodes \in {{ObjectOf(id) : id \in ItemIds(hostNodes)}},
          links \in {rendererLinks(hostNodes)} :
       \E drawn \in {{RenderOf(o).draws : o \in nodes}},
          scaled \in {{o \in nodes : /\ RenderOf(o).proxy
                                      /\ settings.enabled
                                      /\ o[1] \in DOMAIN nodeStyles
                                      /\ Multiplier(nodeStyles[o[1]].size) # 100}},
          linksDrawn \in {{LinkRenderOf(l).draws : l \in links}},
          linksScaled \in {{l \in links : /\ LinkRenderOf(l).proxy
                                           /\ settings.enabled
                                           /\ l \in DOMAIN edgeStyles
                                           /\ edgeStyles[l].width # 100}} :
           /\ circleScale' = Multiplied([o \in DOMAIN circleScale \cup drawn |->
                                            IF o \in drawn THEN 0 ELSE circleScale[o]], scaled)
           /\ lineScale' = Multiplied([l \in DOMAIN lineScale \cup linksDrawn |->
                                          IF l \in linksDrawn THEN 0 ELSE lineScale[l]],
                                      linksScaled)
    /\ UNCHANGED <<finderVars, settings, ruleRet, stylerVars, pluginVars, bfs, eventVars, lifeVars,
                   proxyVars, nodeObject, render, linkRender, lastRun>>

(* GraphStyler.initialize, called by the constructor and by its own timer *)
Initialize ==
    /\ Idle
    /\ initTimer
    /\ IF rendererReady
       THEN /\ isInitialized' = TRUE
            /\ stylePass(settings, {}, {})
            /\ rafId' = TRUE
            /\ initTimer' = FALSE
            /\ lastRun' = Ran("initialize", settings.enabled, FALSE)
            /\ UNCHANGED <<settings, pluginVars, bfs, eventVars, rendererReady, disposed,
                           lastNodeCount, lastLinkCount>>
       ELSE /\ lastRun' = Ran("initialize", FALSE, FALSE)
            /\ UNCHANGED <<finderVars, settings, ruleRet, stylerVars, pluginVars, bfs, eventVars,
                           lifeVars, proxyVars, objectVars>>

(* a tick that runs the pass whenever styling is enabled *)
CheckForChangesEveryTick ==
    /\ Idle
    /\ rafId
    /\ \E nodes \in {ItemIds([hostNodes EXCEPT !.items = nodeEntriesOf(hostNodes)])},
          links \in {rendererLinks(hostNodes)},
          currentNodeCount \in {Len(nodeEntriesOf(hostNodes))},
          currentLinkCount \in {Cardinality(rendererLinks(hostNodes))} :
       \E hasNewProxies \in {nodes \ proxiedNodes # {} \/ links \ proxiedLinks # {}} :
           IF settings.enabled /\ rendererReady
           THEN /\ lastNodeCount' = currentNodeCount
                /\ lastLinkCount' = currentLinkCount
                /\ stylePass(settings, nodes, links)
                /\ lastRun' = Ran("checkForChanges", TRUE, hasNewProxies)
                /\ UNCHANGED <<settings, pluginVars, bfs, eventVars, lifeVars>>
           ELSE /\ lastRun' = Ran("checkForChanges", FALSE, FALSE)
                /\ UNCHANGED <<finderVars, settings, ruleRet, stylerVars, pluginVars, bfs, eventVars,
                               lifeVars, proxyVars, objectVars>>

(* GraphStyler.checkForChanges, the callback of the requested frame *)
CheckForChanges ==
    /\ Idle
    /\ rafId
    /\ \E nodes \in {ItemIds([hostNodes EXCEPT !.items = nodeEntriesOf(hostNodes)])},
          links \in {rendererLinks(hostNodes)},
          currentNodeCount \in {Len(nodeEntriesOf(hostNodes))},
          currentLinkCount \in {Cardinality(rendererLinks(hostNodes))} :
       \E hasNewProxies \in {nodes \ proxiedNodes # {} \/ links \ proxiedLinks # {}} :
           IF /\ settings.enabled
              /\ rendererReady
              /\ \/ currentNodeCount # lastNodeCount
                 \/ currentLinkCount # lastLinkCount
                 \/ hasNewProxies
           THEN /\ lastNodeCount' = currentNodeCount
                /\ lastLinkCount' = currentLinkCount
                /\ stylePass(settings, nodes, links)
                /\ lastRun' = Ran("checkForChanges", TRUE, hasNewProxies)
                /\ UNCHANGED <<settings, pluginVars, bfs, eventVars, lifeVars>>
           ELSE /\ lastRun' = Ran("checkForChanges", FALSE, FALSE)
                /\ UNCHANGED <<finderVars, settings, ruleRet, stylerVars, pluginVars, bfs, eventVars,
                               lifeVars, proxyVars, objectVars>>

(* GraphStyler.updateSettings *)
updateSettings(st) ==
    /\ settings' = st
    /\ stylePass(st, {}, {})
    /\ lastRun' = Ran("updateSettings", st.enabled /\ rendererReady, FALSE)
    /\ UNCHANGED <<pluginVars, bfs, lifeVars, lastNodeCount, lastLinkCount>>

(* The first call of updateAllStylers on the styler, after the plugin has  *)
(* saved settings or toggled styling.                                      *)
UpdateSettings(st) ==
    /\ Idle
    /\ ~disposed
    /\ updateSettings(st)
    /\ UNCHANGED eventVars

(* styler.applyStyles(), the second call of updateAllStylers *)
ApplyStylesAfterUpdate ==
    /\ lastRun.op = "updateSettings"
    /\ stylePass(settings, {}, {})
    /\ lastRun' = Ran("applyStyles", settings.enabled /\ rendererReady, FALSE)
    /\ UNCHANGED <<settings, pluginVars, bfs, eventVars, lifeVars, lastNodeCount, lastLinkCount>>

(* a cleanup that forgets the remembered active node as well *)
CleanupForgetsActive ==
    /\ Idle
    /\ ~disposed
    /\ disposed' = TRUE
    /\ rafId' = FALSE
    /\ clearStyles
    /\ lastPass' = [op |-> "cleanup", activeNodeId |-> NoFile]
    /\ lastActiveNodeId' = NoFile
    /\ proxiedNodes' = {}
    /\ proxiedLinks' = {}
    /\ originalRenderMethods' = NoStyles
    /\ originalLinkRenderMethods' = {}
    /\ lastNodeCount' = 0
    /\ lastLinkCount' = 0
    /\ lastRun' = Ran("cleanup", FALSE, FALSE)
    /\ UNCHANGED <<finderVars, settings, ruleRet, activeFile, pluginVars,
                   bfs, eventVars, rendererReady, isInitialized, initTimer, objectVars>>

(* GraphStyler.cleanup, called once by the plugin when it drops the styler *)
Cleanup ==
    /\ Idle
    /\ ~disposed
    /\ disposed' = TRUE
    /\ rafId' = FALSE
    /\ render' = [o \in DOMAIN render \cup
                          {ObjectOf(id) : id \in IF rendererReady
                                                 THEN ItemIds(hostNodes) \cap DOMAIN originalRenderMethods
                                                 ELSE {}} |->
                     IF rendererReady /\ o[1] \in ItemIds(hostNodes) /\ o = ObjectOf(o[1])
                        /\ o[1] \in DOMAIN originalRenderMethods
                     THEN Original(originalRenderMethods[o[1]])
                     ELSE render[o]]
    /\ linkRender' = [l \in DOMAIN linkRender |->
                         IF rendererReady /\ l \in rendererLinks(hostNodes)
                            /\ l \in originalLinkRenderMethods
                         THEN Original(linkRender[l].draws)
                         ELSE linkRender[l]]
    /\ clearStyles
    /\ lastPass' = [op |-> "cleanup", activeNodeId |-> NoFile]
    /\ proxiedNodes' = {}
    /\ proxiedLinks' = {}
    /\ originalRenderMethods' = NoStyles
    /\ originalLinkRenderMethods' = {}
    /\ lastNodeCount' = 0
    /\ lastLinkCount' = 0
    /\ lastRun' = Ran("cleanup", FALSE, FALSE)
    /\ UNCHANGED <<finderVars, settings, ruleRet, activeFile, lastActiveNodeId, pluginVars,
                   bfs, eventVars, rendererReady, isInitialized, initTimer, nodeObject,
                   circleScale, lineScale>>

(* Specification of one styler from its construction on a leaf whose view  *)
(* has no renderer yet to its cleanup: three nodes and one link to come,   *)
(* the default settings with one hop, styling switched on and off.         *)
SessionSettings == {[DEFAULT_SETTINGS EXCEPT !.maxHops = 1, !.enabled = b] : b \in BOOLEAN}

SessionFiles == {NoFile, nA}

InitLifeIn(v) ==
    /\ hostNodes = [shape |-> "map", links |-> "set",
                    items |-> [i \in 1..3 |-> [id |-> IdSeq[i], node |-> EmptyNode]]]
    /\ pending = 0
    /\ adjacencyList = EmptyAdj
    /\ nfInput = NoNodes("map", "set")
    /\ nfHist = "none"
    /\ ret = NoRet
    /\ settings = [DEFAULT_SETTINGS EXCEPT !.maxHops = 1]
    /\ ruleRet = NoRuleRet
    /\ activeFile = getActiveFile(v, NoFile)
    /\ lastActiveNodeId = NoFile
    /\ nodeHopLevels = NoStyles
    /\ nodeStyles = NoStyles
    /\ edgeStyles = NoStyles
    /\ lastPass = NoPass
    /\ InitPluginFields
    /\ bfs = NoBfs
    /\ debounceTimer = FALSE
    /\ eventFile = NoFile
    /\ view = v
    /\ rendererReady = FALSE
    /\ isInitialized = FALSE
    /\ initTimer = TRUE
    /\ rafId = FALSE
    /\ disposed = FALSE
    /\ lastNodeCount = 0
    /\ lastLinkCount = 0
    /\ proxiedNodes = {}
    /\ proxiedLinks = {}
    /\ originalRenderMethods = NoStyles
    /\ originalLinkRenderMethods = {}
    /\ lastRun = Ran("constructor", FALSE, FALSE)
    /\ nodeObject = NoStyles
    /\ render = NoStyles
    /\ linkRender = NoStyles
    /\ circleScale = NoStyles
    /\ lineScale = NoStyles

InitLife == \E v \in {GraphView} : InitLifeIn(v)

(* the workspace reports another active file *)
FileOpens(f) ==
    /\ Idle
    /\ OpenFile(f)

(* the graph view shows one more link *)
LinkAppears(from, to) ==
    /\ Idle
    /\ HostLink(from, to)

NextLife ==
    \/ RendererReady
    \/ Initialize
    \/ CheckForChanges
    \/ \E st \in SessionSettings : UpdateSettings(st)
    \/ ApplyStylesAfterUpdate
    \/ Cleanup
    \/ \E f \in SessionFiles : FileOpens(f)
    \/ LinkAppears(nA, nB)
    \/ HostRenameNode(nC, nD)

SpecLife == InitLife /\ [][NextLife]_vars

(* Specification of the styler and the host's display objects: the styler  *)
(* of SpecLife without its polling loop, and a host that renders frames    *)
(* and replaces the node object of A.md.                                   *)
NextDisplay ==
    \/ RendererReady
    \/ Initialize
    \/ \E st \in SessionSettings : UpdateSettings(st)
    \/ ApplyStylesAfterUpdate
    \/ Cleanup
    \/ \E f \in SessionFiles : FileOpens(f)
    \/ LinkAppears(nA, nB)
    \/ HostReplaceNode(nA)
    \/ HostRender

SpecDisplay == InitLife /\ [][NextDisplay]_vars

----------------------------------------------------------------------------
(* The change events of the workspace and debouncedUpdate.  debounce(cb,   *)
(* 100, true) of the Obsidian API starts its timer at a call, starts it    *)
(* anew at every further call and runs cb once when it expires.            *)

(* The workspace makes f its active file and fires file-open and           *)
(* active-leaf-change: debouncedUpdate().                                  *)
ActiveFileChanges(f) ==
    /\ Idle
    /\ f # eventFile
    /\ eventFile' = f
    /\ debounceTimer' = TRUE
    /\ \E reported \in {getActiveFile(view, f)} :
          /\ activeFile' = reported
          /\ IF reported # activeFile
             THEN pending < MaxPending /\ pending' = pending + 1
             ELSE pending' = pending
    /\ UNCHANGED <<hostNodes, adjacencyList, nfInput, nfHist, ret, settings, ruleRet,
                   lastActiveNodeId, nodeHopLevels, nodeStyles, edgeStyles, lastPass,
                   pluginVars, bfs, view, lifeVars, proxyVars, objectVars, lastRun>>

(* a timer that expires without running the callback *)
DebounceDrops ==
    /\ Idle
    /\ debounceTimer
    /\ debounceTimer' = FALSE
    /\ UNCHANGED <<finderVars, settings, ruleRet, stylerVars, pluginVars, bfs, eventFile, view,
                   lifeVars, proxyVars, objectVars, lastRun>>

(* The timer expires: updateAllStylers(), whose first call on the styler   *)
(* is updateSettings(this.settings).                                       *)
DebounceFires ==
    /\ Idle
    /\ debounceTimer
    /\ ~disposed
    /\ debounceTimer' = FALSE
    /\ updateSettings(settings)
    /\ UNCHANGED <<eventFile, view>>

(* Specification of the styler of SpecLife under the change events of the  *)
(* workspace, on a graph view and on a local graph that stays on B.md.     *)
DebounceViews == {GraphView, [type |-> "localgraph", file |-> nB]}

DebounceFiles == {nA, nB}

InitDebounce == \E v \in DebounceViews : InitLifeIn(v)

NextDebounce ==
    \/ RendererReady
    \/ Initialize
    \/ CheckForChanges
    \/ \E st \in SessionSettings : UpdateSettings(st)
    \/ ApplyStylesAfterUpdate
    \/ \E f \in DebounceFiles : ActiveFileChanges(f)
    \/ DebounceFires
    \/ LinkAppears(nA, nB)

(* the step in which the timer expires: only DebounceFires takes it *)
TimerExpires ==
    /\ Idle
    /\ debounceTimer
    /\ ~disposed
    /\ debounceTimer' = FALSE

(* the step of the second call of updateAllStylers: only                  *)
(* ApplyStylesAfterUpdate takes it                                         *)
SecondCall ==
    /\ lastRun.op = "updateSettings"
    /\ lastRun' = Ran("applyStyles", settings.enabled /\ rendererReady, FALSE)

(* The timer expires 100 ms after the last call, and updateAllStylers runs *)
(* to its end.                                                             *)
SpecDebounce ==
    /\ InitDebounce
    /\ [][NextDebounce]_vars
    /\ WF_debounceTimer(TimerExpires)
    /\ WF_lastRun(SecondCall)

Sources == NodeIds \cup {nX}

(* Specification of the distance engine: a host that holds the four nodes  *)
(* and links them, a finder that is rebuilt and queried.                   *)
InitFinder ==
    /\ hostNodes = [shape |-> "map", links |-> "set",
                    items |-> [i \in 1..Len(IdSeq) |-> [id |-> IdSeq[i], node |-> EmptyNode]]]
    /\ pending = 0
    /\ adjacencyList = EmptyAdj
    /\ nfInput = NoNodes("map", "set")
    /\ nfHist = "none"
    /\ ret = NoRet
    /\ settings = DEFAULT_SETTINGS
    /\ ruleRet = NoRuleRet
    /\ InitStyler
    /\ InitPlugin

NextFinder ==
    \/ \E a, b \in NodeIds : Ord(a) <= Ord(b) /\ HostLink(a, b)
    \/ BuildFromNodes
    \/ \E s \in Sources, m \in 1..MaxHopsBound : FindNeighborsByHop(s, m)
    \/ \E s \in Sources : GetAllConnectedNodes(s)

SpecFinder == InitFinder /\ [][NextFinder]_vars


(* The two breadth-first loops, one iteration of the while loop at a time. *)
(* bfs.pushed lists the ids in the order of queue.push (each push follows  *)
(* visited.add), bfs.shifted in the order of queue.shift.  The code is     *)
(* synchronous: the adjacency list does not change while a loop runs.      *)
StartFindNeighborsByHop(sourceId, maxHops) ==
    /\ bfs.queue = <<>>
    /\ bfs' = IF sourceId \notin DOMAIN adjacencyList
              THEN [NoBfs EXCEPT !.op = "findNeighborsByHop", !.sourceId = sourceId,
                                 !.maxHops = maxHops,
                                 !.hops = [hop \in 1..maxHops |-> {}]]
              ELSE [NoBfs EXCEPT !.op = "findNeighborsByHop", !.sourceId = sourceId,
                                 !.maxHops = maxHops,
                                 !.hops = [hop \in 1..maxHops |-> {}],
                                 !.queue = <<<<sourceId, 0>>>>,
                                 !.visited = {sourceId},
                                 !.pushed = <<sourceId>>]
    /\ UNCHANGED <<finderVars, settings, ruleRet, stylerVars, pluginVars,
                   eventVars, lifeVars, proxyVars, objectVars, lastRun>>

StartGetAllConnectedNodes(sourceId) ==
    /\ bfs.queue = <<>>
    /\ bfs' = IF sourceId \notin DOMAIN adjacencyList
              THEN [NoBfs EXCEPT !.op = "getAllConnectedNodes", !.sourceId = sourceId]
              ELSE [NoBfs EXCEPT !.op = "getAllConnectedNodes", !.sourceId = sourceId,
                                 !.queue = <<sourceId>>,
                                 !.visited = {sourceId},
                                 !.pushed = <<sourceId>>]
    /\ UNCHANGED <<finderVars, settings, ruleRet, stylerVars, pluginVars,
                   eventVars, lifeVars, proxyVars, objectVars, lastRun>>

(* the iteration that pushes every neighbor, visited or not *)
LoopStepNoVisited ==
    /\ bfs.queue # <<>>
    /\ IF bfs.op = "findNeighborsByHop"
       THEN LET currentId == bfs.queue[1][1]
                distance == bfs.queue[1][2]
                fresh == IF distance < bfs.maxHops
                         THEN NeighborsOf(adjacencyList, currentId)
                         ELSE <<>>
            IN  bfs' = [bfs EXCEPT
                           !.queue = Tail(@) \o [i \in 1..Len(fresh) |-> <<fresh[i], distance + 1>>],
                           !.visited = @ \cup Range(fresh),
                           !.hops = IF distance > 0 /\ distance <= bfs.maxHops
                                    THEN [@ EXCEPT ![distance] = @ \cup {currentId}]
                                    ELSE @,
                           !.pushed = @ \o fresh,
                           !.shifted = Append(@, currentId)]
       ELSE LET currentId == bfs.queue[1]
                fresh == NeighborsOf(adjacencyList, currentId)
            IN  bfs' = [bfs EXCEPT
                           !.queue = Tail(@) \o fresh,
                           !.visited = @ \cup Range(fresh),
                           !.connected = IF currentId # bfs.sourceId
                                         THEN @ \cup {currentId} ELSE @,
                           !.pushed = @ \o fresh,
                           !.shifted = Append(@, currentId)]
    /\ UNCHANGED <<finderVars, settings, ruleRet, stylerVars, pluginVars,
                   eventVars, lifeVars, proxyVars, objectVars, lastRun>>

LoopStep ==
    /\ bfs.queue # <<>>
    /\ IF bfs.op = "findNeighborsByHop"
       THEN LET currentId == bfs.queue[1][1]
                distance == bfs.queue[1][2]
                fresh == IF distance < bfs.maxHops
                         THEN SelectSeq(NeighborsOf(adjacencyList, currentId),
                                        LAMBDA n : n \notin bfs.visited)
                         ELSE <<>>
            IN  bfs' = [bfs EXCEPT
                           !.queue = Tail(@) \o [i \in 1..Len(fresh) |-> <<fresh[i], distance + 1>>],
                           !.visited = @ \cup Range(fresh),
                           !.hops = IF distance > 0 /\ distance <= bfs.maxHops
                                    THEN [@ EXCEPT ![distance] = @ \cup {currentId}]
                                    ELSE @,
                           !.pushed = @ \o fresh,
                           !.shifted = Append(@, currentId)]
       ELSE LET currentId == bfs.queue[1]
                fresh == SelectSeq(NeighborsOf(adjacencyList, currentId),
                                   LAMBDA n : n \notin bfs.visited)
            IN  bfs' = [bfs EXCEPT
                           !.queue = Tail(@) \o fresh,
                           !.visited = @ \cup Range(fresh),
                           !.connected = IF currentId # bfs.sourceId
                                         THEN @ \cup {currentId} ELSE @,
                           !.pushed = @ \o fresh,
                           !.shifted = Append(@, currentId)]
    /\ UNCHANGED <<finderVars, settings, ruleRet, stylerVars, pluginVars,
                   eventVars, lifeVars, proxyVars, objectVars, lastRun>>

(* Specification of the loops: the finder has been built from a host that  *)
(* holds the four nodes and any of the links below, among them a cycle and *)
(* a self-loop; a loop, once started, runs to its end.                     *)
BfsLinks == {<<nA, nA>>, <<nA, nB>>, <<nA, nC>>, <<nB, nC>>, <<nC, nD>>}

(* the host's nodes after it has created the links, in their order *)
RECURSIVE LinkedNodes(_, _)
LinkedNodes(nodes, links) ==
    IF links = {} THEN nodes
    ELSE LET l == CHOOSE x \in links : \A y \in links \ {x} : LinkBefore(x, y)
             i == ItemIndex(nodes, l[1])
             j == ItemIndex(nodes, l[2])
             n1 == [nodes EXCEPT !.items[i].node.forward = AppendElem(@, "set", ObjElem(l[2]))]
         IN  LinkedNodes([n1 EXCEPT !.items[j].node.reverse = AppendElem(@, "set", ObjElem(l[1]))],
                         links \ {l})

InitBfs ==
    /\ \E links \in SUBSET BfsLinks :
          hostNodes = LinkedNodes([shape |-> "map", links |-> "set",
                                   items |-> [i \in 1..Len(IdSeq) |->
                                                 [id |-> IdSeq[i], node |-> EmptyNode]]],
                                  links)
    /\ pending = 0
    /\ adjacencyList = buildFromNodes(EmptyAdj, hostNodes)
    /\ nfInput = hostNodes
    /\ nfHist = "kept"
    /\ ret = [NoRet EXCEPT !.op = "buildFromNodes"]
    /\ settings = DEFAULT_SETTINGS
    /\ ruleRet = NoRuleRet
    /\ InitStyler
    /\ InitPlugin

NextBfs ==
    \/ \E s \in Sources, m \in 1..MaxHopsBound : StartFindNeighborsByHop(s, m)
    \/ \E s \in Sources : StartGetAllConnectedNodes(s)
    \/ LoopStep

SpecBfs == InitBfs /\ [][NextBfs]_vars /\ WF_vars(LoopStep)

(* Specification of the graph builder: a host whose collection has any of  *)
(* the three shapes and whose link containers hold raw ids, objects with   *)
(* an id, objects without one and nulls.                                   *)
BuildIds == {nA, nB}

(* the hosts of SpecBuild: the collection shape and the link container *)
HostKinds == {<<"map", "set">>, <<"array", "array">>, <<"record", "object">>}

InitBuild ==
    /\ hostNodes \in {NoNodes(k[1], k[2]) : k \in HostKinds}
    /\ pending = 0
    /\ adjacencyList = EmptyAdj
    /\ nfInput = NoNodes("map", "set")
    /\ nfHist = "none"
    /\ ret = NoRet
    /\ settings = DEFAULT_SETTINGS
    /\ ruleRet = NoRuleRet
    /\ InitStyler
    /\ InitPlugin

NextBuild ==
    \/ \E id \in BuildIds, node \in {EmptyNode, NullNode} : HostAddNode(id, node)
    \/ \E i \in 1..MaxNodes : HostRemoveNode(i)
    \/ \E i \in 1..MaxNodes, d \in {"forward", "reverse"}, e \in LinkElems :
          HostAddElem(i, d, e)
    \/ BuildFromNodes

SpecBuild == InitBuild /\ [][NextBuild]_vars


----------------------------------------------------------------------------
(* Properties of the NeighborFinder *)

AsGraph(adj) == [k \in DOMAIN adj |-> Range(adj[k])]

Adjacent(adj, x) == IF x \in DOMAIN adj THEN Range(adj[x]) ELSE {}

(* the nodes at most k edges away from s *)
RECURSIVE Within(_, _, _)
Within(adj, s, k) ==
    IF k = 0 THEN {s}
    ELSE LET w == Within(adj, s, k - 1)
         IN  w \cup UNION {Adjacent(adj, x) : x \in w}

(* the nodes whose shortest-path distance from s is exactly k *)
AtDistance(adj, s, k) == Within(adj, s, k) \ Within(adj, s, k - 1)

Reachable(adj, s) == Within(adj, s, Cardinality(DOMAIN adj))

(* C1: for a source present in the graph, findNeighborsByHop(s, m) returns *)
(* for each k in 1..m exactly the nodes at shortest-path distance k from   *)
(* s; the sets are pairwise disjoint and none contains s.                  *)
C1_HopSetsAreDistanceClasses ==
    (ret.op = "findNeighborsByHop" /\ ret.sourceId \in DOMAIN adjacencyList) =>
        /\ DOMAIN ret.hops = 1..ret.maxHops
        /\ \A k \in 1..ret.maxHops :
              /\ ret.hops[k] = AtDistance(adjacencyList, ret.sourceId, k)
              /\ ret.sourceId \notin ret.hops[k]
              /\ \A j \in 1..ret.maxHops : j # k => ret.hops[j] \cap ret.hops[k] = {}

(* Scenario A: chain A-B-C-D, source B, maxHops 2 *)
C1_Witness ==
    /\ ret.op = "findNeighborsByHop" /\ ret.sourceId = nB /\ ret.maxHops = 2
    /\ AsGraph(adjacencyList) = (nA :> {nB}) @@ (nB :> {nA, nC}) @@ (nC :> {nB, nD}) @@ (nD :> {nC})
    /\ ret.hops[1] = {nA, nC} /\ ret.hops[2] = {nD}

(* C2: for a source present in the graph, getAllConnectedNodes(s) is the   *)
(* set of nodes other than s that some path from s reaches; s is not in it.*)
C2_ConnectedIsReachableWithoutSource ==
    (ret.op = "getAllConnectedNodes" /\ ret.sourceId \in DOMAIN adjacencyList) =>
        /\ ret.connected = Reachable(adjacencyList, ret.sourceId) \ {ret.sourceId}
        /\ ret.sourceId \notin ret.connected

(* a source with a self-loop that reaches two nodes, one of them only in   *)
(* two steps, and does not reach a third                                   *)
C2_Witness ==
    /\ ret.op = "getAllConnectedNodes" /\ ret.sourceId \in DOMAIN adjacencyList
    /\ ret.sourceId \in Adjacent(adjacencyList, ret.sourceId)
    /\ Cardinality(ret.connected) = 2
    /\ ret.connected \ Adjacent(adjacencyList, ret.sourceId) # {}
    /\ DOMAIN adjacencyList \ (ret.connected \cup {ret.sourceId}) # {}

(* C3: the adjacency structure is symmetric and every id in a neighbor set *)
(* is a key, also a link endpoint that is not an input node.               *)
C3_AdjacencyWellFormed ==
    \A a \in DOMAIN adjacencyList : \A b \in Range(adjacencyList[a]) :
        b \in DOMAIN adjacencyList /\ a \in Range(adjacencyList[b])

(* a build that added a link endpoint which is not a node of the input *)
C3_Witness ==
    /\ nfHist # "none"
    /\ \E k \in DOMAIN adjacencyList :
          k \notin ItemIds(nfInput) /\ adjacencyList[k] # <<>>

(* the ids a link container lists: raw id strings and ids carried by objects *)
Listed(linkData) ==
    {e.id : e \in {x \in Range(linkData.elems) : x.t \in {"str", "obj"} /\ x.id # <<>>}}

LinkedIds(node) == Listed(node.forward) \cup Listed(node.reverse)

(* the input's nodes that carry an id and its nodes that carry links *)
InputNodeIds(nodes) ==
    {nodes.items[i].id : i \in {j \in DOMAIN nodes.items :
                                     nodes.shape = "array" => ~nodes.items[j].node.null}}

InputLinks(nodes) ==
    {<<nodes.items[i].id, b>> : i \in DOMAIN nodes.items, b \in NodeIds \cup {nX}} \cap
    UNION {{<<nodes.items[i].id, b>> : b \in LinkedIds(nodes.items[i].node)} :
              i \in {j \in DOMAIN nodes.items : ~nodes.items[j].node.null}}

ExpectedGraph(nodes) ==
    LET links == InputLinks(nodes)
        ids == InputNodeIds(nodes) \cup {l[1] : l \in links} \cup {l[2] : l \in links}
    IN  [a \in ids |-> {b \in ids : <<a, b>> \in links \/ <<b, a>> \in links}]

(* C4: buildFromNodes produces exactly the undirected graph of the input   *)
(* links: keys are the input node ids plus all link endpoints, A and B are *)
(* adjacent iff one lists the other forward or reverse, as a raw id or as  *)
(* an object with an id; repeated links give one edge.                     *)
C4_BuildIsGraphOfInputLinks ==
    nfHist # "none" => AsGraph(adjacencyList) = ExpectedGraph(nfInput)

(* a build whose input lists the same link twice in one container and has  *)
(* a link endpoint outside the node collection                             *)
C4_Witness ==
    /\ nfHist # "none"
    /\ \E i \in DOMAIN nfInput.items : \E d \in {"forward", "reverse"} :
          LET es == nfInput.items[i].node[d].elems
          IN  \E p, q \in DOMAIN es : p < q /\ es[p].id = es[q].id /\ es[p].id # <<>>
                                      /\ es[p].t = "str" /\ es[q].t = "obj"
                                      /\ es[p].id \notin ItemIds(nfInput)
                                      /\ nfInput.items[i].id \in Adjacent(adjacencyList, es[p].id)

(* C5: after any sequence of builds the adjacency graph is the graph built *)
(* from the last input alone.                                              *)
C5_BuildDependsOnLastInputOnly ==
    nfHist # "none" =>
        AsGraph(adjacencyList) = AsGraph(buildFromNodes(EmptyAdj, nfInput))

(* a rebuild after which a key or an edge of the previous build is gone *)
C5_Witness == nfHist = "dropped" /\ adjacencyList # EmptyAdj

IsQuery(r) == r.op \in {"findNeighborsByHop", "getAllConnectedNodes"}

(* C6: a query for a source that is not a key returns only empty hop sets  *)
(* (one for every hop 1..maxHops), respectively the empty set, and leaves  *)
(* the adjacency graph as it was.                                          *)
C6_AbsentSourceGivesEmptyResults ==
    [][(IsQuery(ret') /\ hostNodes' = hostNodes /\ ret'.sourceId \notin DOMAIN adjacencyList) =>
          /\ adjacencyList' = adjacencyList
          /\ ret'.op = "findNeighborsByHop" =>
                /\ DOMAIN ret'.hops = 1..ret'.maxHops
                /\ \A k \in DOMAIN ret'.hops : ret'.hops[k] = {}
          /\ ret'.op = "getAllConnectedNodes" => ret'.connected = {}]_vars

(* a hop query for an absent source on a graph that has edges *)
C6_Witness ==
    /\ ret.op = "findNeighborsByHop" /\ ret.sourceId \notin DOMAIN adjacencyList
    /\ ret.maxHops = MaxHopsBound
    /\ \E k \in DOMAIN adjacencyList : adjacencyList[k] # <<>>


----------------------------------------------------------------------------
(* Properties of the rule matcher *)

MinOf(S) == CHOOSE i \in S : \A j \in S : i <= j

EnabledMatching(rules, nodeId) ==
    {i \in DOMAIN rules : rules[i].enabled /\ RuleMatches(rules[i], nodeId)}

(* C7: getStyleFromRules returns the color, shape and size of the          *)
(* lowest-index rule that is enabled and matches the node, and 'no         *)
(* override' when no enabled rule matches.                                 *)
C7_FirstEnabledMatchWins ==
    ruleRet.op = "getStyleFromRules" =>
        LET m == EnabledMatching(settings.rules, ruleRet.nodeId)
        IN  IF m = {} THEN ruleRet.style = NoRuleStyle
            ELSE LET r == settings.rules[MinOf(m)]
                 IN  /\ ruleRet.style.found
                     /\ ruleRet.style.color = r.color
                     /\ ruleRet.style.shape = r.shape
                     /\ ruleRet.style.size = r.size

(* a disabled rule with an override that matches comes first, an enabled   *)
(* matching rule with another override second: the second one is returned  *)
C7_Witness ==
    /\ ruleRet.op = "getStyleFromRules"
    /\ Len(settings.rules) = 2
    /\ \A i \in 1..2 : RuleMatches(settings.rules[i], ruleRet.nodeId)
                       /\ settings.rules[i].color # NoColor
    /\ ~settings.rules[1].enabled /\ settings.rules[2].enabled
    /\ ruleRet.style.found /\ ruleRet.style.color = settings.rules[2].color

(* the part of a path after its last separator *)
RECURSIVE Basename(_)
Basename(path) ==
    IF Includes(path, "/") THEN Basename(Tail(path)) ELSE path

FourForms(nodeId, pattern) ==
    \/ nodeId = pattern
    \/ nodeId = pattern \o <<".md">>
    \/ Basename(nodeId) = pattern
    \/ Basename(nodeId) = pattern \o <<".md">>

(* C8: a 'file' rule with pattern p matches node id n iff n = p,           *)
(* n = p + '.md', basename(n) = p or basename(n) = p + '.md'.              *)
C8_FileRuleMatchesFourForms ==
    (ruleRet.op = "getStyleFromRules"
        /\ \A i \in DOMAIN settings.rules :
              settings.rules[i].enabled => settings.rules[i].type = "file") =>
        (ruleRet.style.found <=>
            \E i \in DOMAIN settings.rules :
                /\ settings.rules[i].enabled
                /\ FourForms(ruleRet.nodeId, settings.rules[i].pattern))

----------------------------------------------------------------------------
(* Properties of a styling pass.  They are stated in the states a pass     *)
(* leaves behind (nothing has changed since: pending = 0), where           *)
(* hostNodes, activeFile and settings are what the pass has read.          *)

AfterPass == lastPass.op = "styled" /\ pending = 0

(* the rule that applies to a node, as C7 determines it, has a color *)
HasRuleColor(nodeId) ==
    LET em == EnabledMatching(settings.rules, nodeId)
    IN  em # {} /\ settings.rules[MinOf(em)].color \notin {NoColor, <<>>}

RuleColorOf(nodeId) == settings.rules[MinOf(EnabledMatching(settings.rules, nodeId))].color

HasRuleSize(nodeId) ==
    LET em == EnabledMatching(settings.rules, nodeId)
    IN  em # {} /\ settings.rules[MinOf(em)].size # NoSize

(* the nodes at most k links away from s in the graph of the input links *)
RECURSIVE Ball(_, _, _)
Ball(g, s, k) ==
    IF k = 0 THEN {s}
    ELSE LET w == Ball(g, s, k - 1)
         IN  w \cup UNION {IF x \in DOMAIN g THEN g[x] ELSE {} : x \in w}

(* the hops h in 1..maxHops at which a node lies from the active node *)
HopsOf(nodeId) ==
    LET g == ExpectedGraph(hostNodes)
    IN  {h \in 1..settings.maxHops :
            nodeId \in Ball(g, lastPass.activeNodeId, h) \ Ball(g, lastPass.activeNodeId, h - 1)}

ReachableFromActive(nodeId) ==
    LET g == ExpectedGraph(hostNodes)
    IN  nodeId \in Ball(g, lastPass.activeNodeId, Cardinality(DOMAIN g))

(* C9: after a pass whose active node is one of the renderer's nodes, the  *)
(* cached style of the active node has the configured active color,        *)
(* opacity 1.0 and the configured active size, whatever rule matches it.   *)
C9_ActiveNodeGetsActiveStyle ==
    (AfterPass /\ lastPass.activeNodeId \in ItemIds(hostNodes)) =>
        LET a == lastPass.activeNodeId
        IN  /\ activeFile # NoFile => a = activeFile
            /\ a \in DOMAIN nodeStyles
            /\ nodeStyles[a].tint = parseColor(settings.selectedNodeColor)
            /\ nodeStyles[a].alpha = 100
            /\ nodeStyles[a].size = settings.activeNodeSize

(* the active node is matched by a rule whose color and size differ from   *)
(* the active color and size, and is styled as the active node             *)
C9_Witness ==
    /\ AfterPass
    /\ lastPass.activeNodeId \in ItemIds(hostNodes)
    /\ HasRuleColor(lastPass.activeNodeId)
    /\ RuleColorOf(lastPass.activeNodeId) # settings.selectedNodeColor
    /\ HasRuleSize(lastPass.activeNodeId)
    /\ getStyleFromRules(settings.rules, lastPass.activeNodeId).size # settings.activeNodeSize
    /\ nodeStyles[lastPass.activeNodeId].size = settings.activeNodeSize
    /\ nodeStyles[lastPass.activeNodeId].tint = parseColor(settings.selectedNodeColor)

(* C10: after a pass, the cached color of every node other than the active *)
(* node is the color of the rule that applies to it, if that rule has one, *)
(* whatever the node's hop class; otherwise, with an active node known, it *)
(* is hopColors[h-1] for a node at distance h in 1..maxHops and gray       *)
(* #888888 for a node farther away or unreachable.                         *)
C10_NonActiveNodeColor ==
    AfterPass =>
        \A n \in ItemIds(hostNodes) \ {lastPass.activeNodeId} :
            /\ n \in DOMAIN nodeStyles
            /\ HasRuleColor(n) => nodeStyles[n].tint = parseColor(RuleColorOf(n))
            /\ (~HasRuleColor(n) /\ lastPass.activeNodeId # NoFile) =>
                  IF HopsOf(n) # {}
                  THEN nodeStyles[n].tint = parseColor(settings.hopColors[MinOf(HopsOf(n))])
                  ELSE nodeStyles[n].tint = parseColor(GRAY)

(* one pass that colors a node in range by its rule although the hop color *)
(* differs, a second node in range by its hop, and a third, reachable but  *)
(* out of range, gray                                                      *)
C10_Witness ==
    /\ AfterPass
    /\ lastPass.activeNodeId \in ItemIds(hostNodes)
    /\ \E n1, n2, n3 \in ItemIds(hostNodes) \ {lastPass.activeNodeId} :
          /\ HasRuleColor(n1) /\ HopsOf(n1) # {}
          /\ nodeStyles[n1].tint = parseColor(RuleColorOf(n1))
          /\ nodeStyles[n1].tint # parseColor(settings.hopColors[MinOf(HopsOf(n1))])
          /\ ~HasRuleColor(n2) /\ HopsOf(n2) # {}
          /\ nodeStyles[n2].tint = parseColor(settings.hopColors[MinOf(HopsOf(n2))])
          /\ ~HasRuleColor(n3) /\ HopsOf(n3) = {}
          /\ ReachableFromActive(n3)
          /\ nodeStyles[n3].tint = parseColor(GRAY)

(* C11: after a pass whose active node is one of the renderer's nodes, the *)
(* cached opacity of every other node is 1.0 if it lies 1..maxHops links   *)
(* from the active node, 0.5 if it is reachable but farther away, and the  *)
(* configured disconnected opacity if it is unreachable, whether or not a  *)
(* rule matches it.                                                        *)
C11_OpacityByDistanceClass ==
    (AfterPass /\ lastPass.activeNodeId \in ItemIds(hostNodes)) =>
        \A n \in ItemIds(hostNodes) \ {lastPass.activeNodeId} :
            /\ n \in DOMAIN nodeStyles
            /\ nodeStyles[n].alpha =
                  IF HopsOf(n) # {} THEN 100
                  ELSE IF ReachableFromActive(n) THEN 50
                  ELSE settings.disconnectedOpacity

(* one pass with a node in range, a node beyond maxHops that a rule with a *)
(* color matches, and an unreachable node that the rule matches as well    *)
C11_Witness ==
    /\ AfterPass
    /\ lastPass.activeNodeId \in ItemIds(hostNodes)
    /\ \E n1, n2, n3 \in ItemIds(hostNodes) \ {lastPass.activeNodeId} :
          /\ HopsOf(n1) # {} /\ nodeStyles[n1].alpha = 100
          /\ HopsOf(n2) = {} /\ ReachableFromActive(n2) /\ HasRuleColor(n2)
          /\ nodeStyles[n2].alpha = 50
          /\ ~ReachableFromActive(n3) /\ HasRuleColor(n3)
          /\ nodeStyles[n3].alpha = settings.disconnectedOpacity

(* no active file is reported and none is remembered *)
NoActiveKnown == activeFile = NoFile /\ lastActiveNodeId = NoFile

(* C12: after a pass with no active node known, every node of the graph    *)
(* has opacity 1.0 and the color of its rule or else the first hop color,  *)
(* and its cached hop level is -1: none is active, in range or beyond.     *)
C12_NoActiveNodeStylesAllNormally ==
    (AfterPass /\ NoActiveKnown) =>
        /\ lastPass.activeNodeId = NoFile
        /\ \A n \in ItemIds(hostNodes) :
              /\ n \in DOMAIN nodeStyles /\ n \in DOMAIN nodeHopLevels
              /\ nodeStyles[n].alpha = 100
              /\ nodeStyles[n].tint =
                    parseColor(IF HasRuleColor(n) THEN RuleColorOf(n)
                               ELSE settings.hopColors[1])
              /\ nodeHopLevels[n] = -1

(* a pass with no active node known over a graph with links, one node      *)
(* colored by its rule and another by the first hop color                  *)
C12_Witness ==
    /\ AfterPass /\ NoActiveKnown
    /\ LinkCount(hostNodes) >= 2
    /\ \E n1, n2 \in ItemIds(hostNodes) :
          /\ HasRuleColor(n1) /\ nodeStyles[n1].tint = parseColor(RuleColorOf(n1))
          /\ ~HasRuleColor(n2) /\ nodeStyles[n2].tint = parseColor(settings.hopColors[1])
          /\ nodeStyles[n1].alpha = 100 /\ nodeStyles[n2].alpha = 100

(* C13: after a pass whose active node id is known but is not a node of    *)
(* the graph, the connected set is empty and every node is styled as in a  *)
(* pass without an active node: opacity 1.0 and the color of its rule or   *)
(* else the first hop color.                                               *)
C13_AbsentActiveNodeStyledAsNoActive ==
    (AfterPass /\ lastPass.activeNodeId # NoFile
               /\ lastPass.activeNodeId \notin ItemIds(hostNodes)) =>
        /\ ret.op = "getAllConnectedNodes" /\ ret.connected = {}
        /\ \A n \in ItemIds(hostNodes) :
              /\ n \in DOMAIN nodeStyles
              /\ nodeStyles[n].alpha = 100
              /\ nodeStyles[n].tint =
                    parseColor(IF HasRuleColor(n) THEN RuleColorOf(n)
                               ELSE settings.hopColors[1])

----------------------------------------------------------------------------
(* Properties of the edge styles of a pass *)

(* the shortest-path distance of a node from the active node of the pass   *)
(* in the graph of the host's links; 0 stands for 'infinite' (no active    *)
(* node, or the node is the active node or unreachable from it)            *)
DistOf(nodeId) ==
    LET g == ExpectedGraph(hostNodes)
        a == lastPass.activeNodeId
        ks == {k \in 1..Cardinality(DOMAIN g) : nodeId \in Ball(g, a, k)}
    IN  IF a = NoFile \/ nodeId = a \/ ks = {} THEN 0 ELSE MinOf(ks)

TouchesActive(l) ==
    lastPass.activeNodeId # NoFile /\ lastPass.activeNodeId \in {l[1], l[2]}

EdgeIs(l, color, alpha, width) ==
    /\ l \in DOMAIN edgeStyles
    /\ edgeStyles[l] = [tint |-> parseColor(color), alpha |-> alpha, width |-> width]

(* the smaller of the endpoints' distances, 0 if both are infinite *)
MinDist(l) ==
    LET ds == {DistOf(l[1]), DistOf(l[2])} \ {0}
    IN  IF ds = {} THEN 0 ELSE MinOf(ds)

(* C14: after a pass in mode 'by-hop', a link with the active node at one  *)
(* end has (hopEdgeColors[0], 1.0, active width); any other link has       *)
(* (hopEdgeColors[minHop-1], 0.7, default width) if the smaller distance   *)
(* minHop of its ends is at most maxHops, (edge color, 0.4, disconnected   *)
(* width) if it is finite but larger, and (edge color, disconnected        *)
(* opacity, disconnected width) if both ends are unreachable.              *)
C14_ByHopEdgeStyle ==
    (AfterPass /\ settings.edgeColorMode = "by-hop") =>
        \A l \in rendererLinks(hostNodes) :
            IF TouchesActive(l)
            THEN EdgeIs(l, settings.hopEdgeColors[1], 100, settings.activeEdgeWidth)
            ELSE IF MinDist(l) = 0
            THEN EdgeIs(l, settings.edgeColor, settings.disconnectedOpacity,
                        settings.disconnectedEdgeWidth)
            ELSE IF MinDist(l) <= settings.maxHops
            THEN EdgeIs(l, settings.hopEdgeColors[MinDist(l)], 70, settings.defaultEdgeWidth)
            ELSE EdgeIs(l, settings.edgeColor, 40, settings.disconnectedEdgeWidth)

(* one pass in mode 'by-hop' with a link at the active node, a link from a *)
(* node at hop 1 to a node at hop 2 colored hopEdgeColors[0], and a link   *)
(* between two nodes beyond maxHops                                        *)
C14_Witness ==
    /\ AfterPass /\ settings.edgeColorMode = "by-hop"
    /\ \E l1, l2, l3 \in rendererLinks(hostNodes) :
          /\ TouchesActive(l1)
          /\ EdgeIs(l1, settings.hopEdgeColors[1], 100, settings.activeEdgeWidth)
          /\ {DistOf(l2[1]), DistOf(l2[2])} = {1, 2}
          /\ EdgeIs(l2, settings.hopEdgeColors[1], 70, settings.defaultEdgeWidth)
          /\ MinDist(l3) > settings.maxHops
          /\ EdgeIs(l3, settings.edgeColor, 40, settings.disconnectedEdgeWidth)

(* both ends of the link lie 1..maxHops links from the active node *)
BothInRange(l) ==
    /\ DistOf(l[1]) \in 1..settings.maxHops
    /\ DistOf(l[2]) \in 1..settings.maxHops

(* C15: after a pass in mode 'single', a link with the active node at one  *)
(* end has (highlighted edge color, 1.0, active width); else a link with   *)
(* both ends in range has (edge color, 0.8, default width); every other    *)
(* link has (edge color, disconnected opacity, disconnected width).        *)
C15_SingleEdgeStyle ==
    (AfterPass /\ settings.edgeColorMode = "single") =>
        \A l \in rendererLinks(hostNodes) :
            IF TouchesActive(l)
            THEN EdgeIs(l, settings.highlightedEdgeColor, 100, settings.activeEdgeWidth)
            ELSE IF BothInRange(l)
            THEN EdgeIs(l, settings.edgeColor, 80, settings.defaultEdgeWidth)
            ELSE EdgeIs(l, settings.edgeColor, settings.disconnectedOpacity,
                        settings.disconnectedEdgeWidth)

(* one pass in mode 'single' with a link of each category, the second      *)
(* between a node at hop 1 and a node at hop 2                             *)
C15_Witness ==
    /\ AfterPass /\ settings.edgeColorMode = "single"
    /\ \E l1, l2, l3 \in rendererLinks(hostNodes) :
          /\ TouchesActive(l1)
          /\ EdgeIs(l1, settings.highlightedEdgeColor, 100, settings.activeEdgeWidth)
          /\ ~TouchesActive(l2) /\ BothInRange(l2) /\ DistOf(l2[1]) # DistOf(l2[2])
          /\ EdgeIs(l2, settings.edgeColor, 80, settings.defaultEdgeWidth)
          /\ ~TouchesActive(l3) /\ ~BothInRange(l3) /\ DistOf(l3[1]) # 0
          /\ EdgeIs(l3, settings.edgeColor, settings.disconnectedOpacity,
                    settings.disconnectedEdgeWidth)

(* C16: after a pass in mode 'inherit', the color of a link is the color   *)
(* the pass has cached for its source node; its width is the active, the   *)
(* default or the disconnected width as in mode 'single'; its opacity is   *)
(* 1.0 at the active node, min(opacity of the source node, 0.8) with both  *)
(* ends in range and the disconnected opacity otherwise.                   *)
C16_InheritEdgeStyle ==
    (AfterPass /\ settings.edgeColorMode = "inherit") =>
        \A l \in rendererLinks(hostNodes) :
            /\ l \in DOMAIN edgeStyles /\ l[1] \in DOMAIN nodeStyles
            /\ edgeStyles[l].tint = nodeStyles[l[1]].tint
            /\ edgeStyles[l].width =
                  IF TouchesActive(l) THEN settings.activeEdgeWidth
                  ELSE IF BothInRange(l) THEN settings.defaultEdgeWidth
                  ELSE settings.disconnectedEdgeWidth
            /\ edgeStyles[l].alpha =
                  IF TouchesActive(l) THEN 100
                  ELSE IF BothInRange(l)
                  THEN (IF nodeStyles[l[1]].alpha <= 80 THEN nodeStyles[l[1]].alpha ELSE 80)
                  ELSE settings.disconnectedOpacity

(* one pass in mode 'inherit' with a link of each category, one of them    *)
(* with the rule color of its source and one with a color that is not the  *)
(* color of its target                                                     *)
C16_Witness ==
    /\ AfterPass /\ settings.edgeColorMode = "inherit"
    /\ \E l1, l2, l3 \in rendererLinks(hostNodes) :
          /\ TouchesActive(l1) /\ edgeStyles[l1].alpha = 100
          /\ ~TouchesActive(l2) /\ BothInRange(l2) /\ edgeStyles[l2].alpha = 80
          /\ ~TouchesActive(l3) /\ ~BothInRange(l3)
          /\ edgeStyles[l3].alpha = settings.disconnectedOpacity
          /\ \E l \in {l1, l2, l3} :
                /\ HasRuleColor(l[1])
                /\ edgeStyles[l].tint = parseColor(RuleColorOf(l[1]))
          /\ \E l \in {l1, l2, l3} :
                /\ edgeStyles[l].tint = nodeStyles[l[1]].tint
                /\ edgeStyles[l].tint # nodeStyles[l[2]].tint

----------------------------------------------------------------------------
(* Properties of a pass under a short palette *)

ShortPalette ==
    Len(settings.hopColors) < settings.maxHops \/ Len(settings.hopEdgeColors) < settings.maxHops

(* C17: under a hop color or hop edge color array shorter than maxHops, an *)
(* empty one included, no pass fails, and a pass leaves every node and     *)
(* every link with a cached style whose color is a number.                 *)
C17_PassCompletesOnShortPalette ==
    ShortPalette =>
        /\ lastPass.op # "threw"
        /\ (lastPass.op = "styled" /\ pending = 0) =>
              /\ \A n \in ItemIds(hostNodes) :
                    n \in DOMAIN nodeStyles /\ nodeStyles[n].tint >= 0
              /\ \A l \in rendererLinks(hostNodes) :
                    l \in DOMAIN edgeStyles /\ edgeStyles[l].tint >= 0

(* a pass that ends well under a palette of one color with nodes at hop 2  *)
PaletteFallbackSeen ==
    /\ AfterPass /\ Len(settings.hopColors) = 1 /\ settings.maxHops = 2
    /\ \E n \in ItemIds(hostNodes) :
          /\ DistOf(n) = 2 /\ ~HasRuleColor(n)
          /\ nodeStyles[n].tint = parseColor(settings.hopColors[1])

(* C18: after Reset to defaults every setting other than presets and       *)
(* activePreset has its shipped default value -- rules is empty, hopColors *)
(* is the shipped palette, maxHops is 3 -- and the arrays of               *)
(* DEFAULT_SETTINGS are never altered by an edit.                          *)
C18_ResetRestoresShippedDefaults ==
    /\ lastEdit.op = "reset" =>
        /\ heap[pluginSettings.rules] = <<>>
        /\ heap[pluginSettings.hopColors] = DEFAULT_HOP_COLORS
        /\ pluginSettings.maxHops = 3
        /\ pluginSettings.enabled
        /\ pluginSettings.applyToGlobalGraph
        /\ pluginSettings.applyToLocalGraph
    /\ heap[DefaultRulesRef] = <<>>
    /\ heap[DefaultHopColorsRef] = DEFAULT_HOP_COLORS

(* C19: no styler is attached to a graph view whose kind is switched off   *)
(* in the scope settings, and saving a scope toggle styles no such view.   *)
InScope(l) ==
    \/ leaves[l] = "graph" /\ pluginSettings.applyToGlobalGraph
    \/ leaves[l] = "localgraph" /\ pluginSettings.applyToLocalGraph

C19_NoStylerOutOfScope ==
    /\ \A l \in DOMAIN leaves : l \in stylers => InScope(l)
    /\ lastEdit.op \in {"applyToGlobalGraph", "applyToLocalGraph"} =>
            \A l \in DOMAIN leaves : l \in lastStyled => InScope(l)

(* C20: after a pass with styling enabled the node-style cache has entries *)
(* exactly for the node ids in the renderer and the edge-style cache       *)
(* exactly for the current links, so that no style of an earlier pass for  *)
(* a removed node or link survives.                                        *)
C20_CachesHoldThisPassOnly ==
    AfterPass =>
        /\ DOMAIN nodeStyles = ItemIds(hostNodes)
        /\ DOMAIN nodeHopLevels = ItemIds(hostNodes)
        /\ DOMAIN edgeStyles = HostLinks(hostNodes)

(* C24: after a pass every node of the renderer has exactly one cached hop *)
(* level: 0 if and only if it is the active node, its distance d from the  *)
(* active node if d is in 1..maxHops, maxHops+1 if it is reachable but     *)
(* farther away, -1 if it is unreachable; with no active node every level  *)
(* is -1.                                                                  *)
C24_HopLevelIsDistanceClass ==
    AfterPass =>
        /\ DOMAIN nodeHopLevels = ItemIds(hostNodes)
        /\ \A n \in ItemIds(hostNodes) :
              nodeHopLevels[n] =
                  IF lastPass.activeNodeId = NoFile THEN -1
                  ELSE IF n = lastPass.activeNodeId THEN 0
                  ELSE IF DistOf(n) \in 1..settings.maxHops THEN DistOf(n)
                  ELSE IF DistOf(n) > settings.maxHops THEN settings.maxHops + 1
                  ELSE -1

(* one pass that caches each kind of level: the active node, a node in     *)
(* range, a node beyond maxHops and an unreachable node                    *)
C24_Witness ==
    /\ AfterPass
    /\ \E a, n1, n2, n3 \in ItemIds(hostNodes) :
          /\ a = lastPass.activeNodeId /\ nodeHopLevels[a] = 0
          /\ nodeHopLevels[n1] \in 1..settings.maxHops /\ DistOf(n1) = nodeHopLevels[n1]
          /\ nodeHopLevels[n2] = settings.maxHops + 1 /\ DistOf(n2) > settings.maxHops
          /\ nodeHopLevels[n3] = -1 /\ DistOf(n3) = 0

(* C29: after a pass with no active node every link has the disconnected   *)
(* opacity and the disconnected width, whatever the edge color mode, while *)
(* every node has opacity 1.0.                                             *)
C29_NoActiveEdgesDisconnected ==
    (AfterPass /\ lastPass.activeNodeId = NoFile) =>
        /\ \A l \in rendererLinks(hostNodes) :
              /\ l \in DOMAIN edgeStyles
              /\ edgeStyles[l].alpha = settings.disconnectedOpacity
              /\ edgeStyles[l].width = settings.disconnectedEdgeWidth
        /\ \A n \in ItemIds(hostNodes) : n \in DOMAIN nodeStyles /\ nodeStyles[n].alpha = 100

(* a pass with no active node over the full chain, whose links are dimmed  *)
(* below the opacity of the nodes at their ends                            *)
C29_Witness ==
    /\ AfterPass /\ lastPass.activeNodeId = NoFile
    /\ LinkCount(hostNodes) = 3
    /\ \A l \in rendererLinks(hostNodes) :
          /\ edgeStyles[l].alpha = settings.disconnectedOpacity
          /\ edgeStyles[l].alpha < nodeStyles[l[1]].alpha
          /\ edgeStyles[l].width = settings.disconnectedEdgeWidth

(* C21: after handleLayoutChange the plugin holds exactly one styler for   *)
(* each open graph view that is in scope and none for any other view, no   *)
(* two views share a styler, and cleanup() has been called on every styler *)
(* that is no longer in the map; after onunload the map is empty and every *)
(* styler has been cleaned up.                                             *)
C21_OneStylerPerViewInScope ==
    lastEdit.op \in {"layoutChange", "unload"} =>
        /\ stylers = IF lastEdit.op = "unload" THEN {}
                     ELSE {l \in DOMAIN leaves : InScope(l)}
        /\ DOMAIN stylerOf = stylers
        /\ \A l1, l2 \in stylers : stylerOf[l1] = stylerOf[l2] => l1 = l2
        /\ \A l \in stylers : stylerOf[l] \in 1..created /\ stylerOf[l] \notin cleanedUp
        /\ \A g \in 1..created : g \in cleanedUp \/ \E l \in stylers : stylerOf[l] = g

(* a layout change after which two views have a styler each and the styler *)
(* of a view that left the scope or was closed has been cleaned up         *)
C21_Witness ==
    /\ lastEdit.op = "layoutChange"
    /\ Cardinality(stylers) = 2
    /\ cleanedUp # {}
    /\ \E l1, l2 \in stylers : stylerOf[l1] # stylerOf[l2]

----------------------------------------------------------------------------
(* Properties of the breadth-first loops *)

NoRepeat(seq) == \A i, j \in DOMAIN seq : seq[i] = seq[j] => i = j

(* C23: in both loops every node is marked visited, pushed and shifted at  *)
(* most once, findNeighborsByHop never pushes a node farther than maxHops  *)
(* from the source, and a loop that has started comes to its end, with the *)
(* result of the operation.                                                *)
BfsVisitsOnce ==
    /\ NoRepeat(bfs.pushed)
    /\ NoRepeat(bfs.shifted)
    /\ Range(bfs.pushed) = bfs.visited
    /\ Len(bfs.shifted) + Len(bfs.queue) = Len(bfs.pushed)
    /\ bfs.op = "findNeighborsByHop" =>
          /\ bfs.visited \subseteq Ball(ExpectedGraph(hostNodes), bfs.sourceId, bfs.maxHops)
          /\ bfs.queue = <<>> =>
                bfs.hops = findNeighborsByHop(adjacencyList, bfs.sourceId, bfs.maxHops)
    /\ (bfs.op = "getAllConnectedNodes" /\ bfs.queue = <<>>) =>
          bfs.connected = getAllConnectedNodes(adjacencyList, bfs.sourceId)

C23_LoopsVisitOnceAndTerminate ==
    /\ []BfsVisitsOnce
    /\ (bfs.queue # <<>>) ~> (bfs.queue = <<>>)

(* findNeighborsByHop with maxHops 1 has ended on a graph with the cycle   *)
(* A - B - C - A, the self-loop at A and the link C - D: A, B and C were   *)
(* pushed once each, D, two links away, never                              *)
C23_Witness ==
    /\ bfs.op = "findNeighborsByHop" /\ bfs.maxHops = 1 /\ bfs.sourceId = nA
    /\ bfs.queue = <<>>
    /\ HostLinks(hostNodes) = BfsLinks
    /\ Len(bfs.shifted) = 3
    /\ nD \notin bfs.visited

----------------------------------------------------------------------------
(* C27: a pass that is given an active file styles it as the active node   *)
(* and remembers it; a pass that is given none uses the remembered file    *)
(* as the active node; and the remembered id changes only in a pass that   *)
(* is given an active file, to that file: neither a pass with styling      *)
(* disabled nor cleanup() clears it.                                       *)
ActiveOfPassIs(f) ==
    /\ lastPass.activeNodeId = f
    /\ f \in DOMAIN nodeHopLevels => nodeHopLevels[f] = 0
    /\ \A n \in DOMAIN nodeHopLevels : nodeHopLevels[n] = 0 => n = f

C27_LastActiveFileIsRemembered ==
    /\ [](AfterPass /\ activeFile # NoFile =>
            lastActiveNodeId = activeFile /\ ActiveOfPassIs(activeFile))
    /\ [](AfterPass /\ activeFile = NoFile => ActiveOfPassIs(lastActiveNodeId))
    /\ [][lastActiveNodeId' # lastActiveNodeId =>
            activeFile # NoFile /\ lastActiveNodeId' = activeFile]_vars

C27_Witness ==
    /\ AfterPass
    /\ activeFile = NoFile
    /\ lastActiveNodeId = nA
    /\ nodeHopLevels[nA] = 0
    /\ lastRun.op = "checkForChanges"

----------------------------------------------------------------------------
(* C25: once cleanup() has run on a styler, no later step of it runs a     *)
(* pass, installs a proxy, writes to a cache or a render method, or        *)
(* requests a frame for its polling loop.                                  *)
C25_NothingRunsAfterCleanup ==
    [][disposed =>
          /\ ~rafId'
          /\ ~isInitialized' \/ isInitialized
          /\ UNCHANGED <<adjacencyList, nfInput, lastActiveNodeId, nodeHopLevels, nodeStyles,
                         edgeStyles, lastPass, proxyVars, render, linkRender>>]_vars

----------------------------------------------------------------------------
(* C22: a poll tick runs the pass only if the number of nodes or of links  *)
(* differs from the recorded one or a node or link had no proxy yet;       *)
(* otherwise it rebuilds nothing and leaves finder, caches and proxies as  *)
(* they were; and with styling disabled it changes nothing at all.         *)
TopologyChanged ==
    \/ Len(nodeEntriesOf(hostNodes)) # lastNodeCount
    \/ Cardinality(rendererLinks(hostNodes)) # lastLinkCount
    \/ \E id \in ItemIds(hostNodes) : id \notin proxiedNodes
    \/ \E l \in rendererLinks(hostNodes) : l \notin proxiedLinks

C22_TickPassesOnlyOnChange ==
    [][CheckForChanges =>
          /\ lastRun'.pass => settings.enabled /\ TopologyChanged
          /\ ~TopologyChanged =>
                 UNCHANGED <<finderVars, stylerVars, proxyVars, objectVars>>
          /\ ~settings.enabled =>
                 UNCHANGED <<finderVars, settings, ruleRet, stylerVars, pluginVars, bfs, eventVars,
                             lifeVars, proxyVars, objectVars>>]_vars

C22_Witness ==
    /\ lastRun = Ran("checkForChanges", TRUE, TRUE)
    /\ lastNodeCount = 3
    /\ {nC, nD} \subseteq proxiedNodes

----------------------------------------------------------------------------
(* C26: after cleanup() every node object and every link of the renderer   *)
(* has its own render method again, the one it had before it was proxied,  *)
(* and none runs the styling proxy.                                        *)
C26_CleanupRestoresRender ==
    lastRun.op = "cleanup" /\ rendererReady =>
        /\ \A id \in ItemIds(hostNodes) : RenderOf(ObjectOf(id)) = Original(ObjectOf(id))
        /\ \A l \in rendererLinks(hostNodes) : LinkRenderOf(l) = Original(l)

----------------------------------------------------------------------------
(* C28: the second pass of updateAllStylers, which follows the first with  *)
(* nothing in between, leaves the scale of every circle and of every line  *)
(* as the first pass left it.                                              *)
C28_SecondPassKeepsScale ==
    [][ApplyStylesAfterUpdate => UNCHANGED <<circleScale, lineScale>>]_vars

----------------------------------------------------------------------------
(* C30: with styling enabled and the styler initialized, after the active  *)
(* file of the workspace has changed to a node F of the graph and the      *)
(* debounce timer runs, a pass completes that styles F as the active node  *)
(* and takes every hop level from F, unless the active file changes again  *)
(* or styling is disabled before.                                          *)
StyledFrom(f) ==
    /\ AfterPass
    /\ lastPass.activeNodeId = f
    /\ DOMAIN nodeHopLevels = ItemIds(hostNodes)
    /\ \A n \in ItemIds(hostNodes) :
          nodeHopLevels[n] =
              IF n = f THEN 0
              ELSE IF DistOf(n) \in 1..settings.maxHops THEN DistOf(n)
              ELSE IF DistOf(n) > settings.maxHops THEN settings.maxHops + 1
              ELSE -1

ChangedTo(f) ==
    /\ settings.enabled
    /\ isInitialized
    /\ debounceTimer
    /\ eventFile = f
    /\ f \in ItemIds(hostNodes)

====
